---- MODULE Spec2Model ----
(***************************************************************************)
(* Woodeye: inference of the activity state of Claude sessions from the    *)
(* hook-written status files (~/.woodeye-status/*.json) and the transcript *)
(* logs (~/.claude/projects/**/*.jsonl).                                   *)
(*                                                                         *)
(* Modelled from src-tauri/src/claude_watcher.rs (status resolver, store   *)
(* read with self-cleanup, transcript fallback, staleness policy, path     *)
(* matcher) and src-tauri/src/claude_status.rs (list_sessions).            *)
(*                                                                         *)
(* Text that the code inspects character by character (tool names: the     *)
(* `contains` tests; paths: `trim_end_matches`) is a sequence of           *)
(* one-character strings.  An Option<T> is a sequence of length at most 1: *)
(* None is << >> and Some(x) is << x >>.                                   *)
(***************************************************************************)
EXTENDS Integers, Sequences, FiniteSets, TLC

VARIABLES
    now,          \* the wall clock, seconds since the epoch
    dirExists,    \* whether ~/.woodeye-status exists
    statusDir,    \* ~/.woodeye-status: file name -> file content
    transcripts,  \* ~/.claude/projects/<dir>/: transcript id -> file
    q,            \* the consumer's call in progress and its locals
    dlog,         \* every file removal so far, with what the file held then
    budget,       \* what is left of the bounds on environment steps
    pol,          \* a pure function applied to a drawn input, and its result
    watch,        \* the change watcher: debouncer, channel and listener
    settings      \* ~/.claude/settings.json and the installer's call

vars == <<now, dirExists, statusDir, transcripts, q, dlog, budget, pol, watch, settings>>

-----------------------------------------------------------------------------
(* Option<T> *)

None == << >>
Some(x) == << x >>
IsSome(o) == Len(o) = 1
Get(o) == o[1]

-----------------------------------------------------------------------------
(* Bounds of the model *)

\* The clock's first value.
T0 == 1000
\* How many times the clock advances (by one second each time).
MaxTicks == 1
\* How many times a hook process writes or removes a status file.
MaxHookOps == 1

-----------------------------------------------------------------------------
(* Tool names *)

TodoWrite == <<"T","o","d","o","W","r","i","t","e">>
ExitPlanMode == <<"E","x","i","t","P","l","a","n","M","o","d","e">>
EnterPlanMode == <<"E","n","t","e","r","P","l","a","n","M","o","d","e">>
ReadTool == <<"R","e","a","d">>
WriteTool == <<"W","r","i","t","e">>
EditTool == <<"E","d","i","t">>
GlobTool == <<"G","l","o","b">>
GrepTool == <<"G","r","e","p">>
NotebookEdit == <<"N","o","t","e","b","o","o","k","E","d","i","t">>
BashTool == <<"B","a","s","h">>
KillShell == <<"K","i","l","l","S","h","e","l","l">>
WebFetch == <<"W","e","b","F","e","t","c","h">>
WebSearch == <<"W","e","b","S","e","a","r","c","h">>
TaskTool == <<"T","a","s","k">>
TaskOutput == <<"T","a","s","k","O","u","t","p","u","t">>
\* Names the code classifies by fragment, or not at all.
PlaywrightClick == <<"P","l","a","y","w","r","i","g","h","t","C","l","i","c","k">>
OpenBrowser == <<"O","p","e","n","B","r","o","w","s","e","r">>
McpBrowser == <<"m","c","p","_","B","r","o","w","s","e","r">>
McpPlaywrightLower == <<"m","c","p","_","_","p","l","a","y","w","r","i","g","h","t">>
McpGithub == <<"m","c","p","_","_","g","i","t","h","u","b">>
MCPSearch == <<"M","C","P","S","e","a","r","c","h">>
McpMixedCase == <<"M","c","p","T","o","o","l">>
ReadLower == <<"r","e","a","d">>
TaskList == <<"T","a","s","k","L","i","s","t">>
Skill == <<"S","k","i","l","l">>
EmptyName == << >>

\* str.contains(sub)
Contains(s, sub) ==
    \E i \in 0..(Len(s) - Len(sub)) : SubSeq(s, i + 1, i + Len(sub)) = sub

-----------------------------------------------------------------------------
(* Staleness policy *)

WAITING_STATE_STALE_THRESHOLD == 600

get_stale_threshold_for_tool_McpFirst(tool) ==
    IF tool = None THEN 60
    ELSE LET t == Get(tool) IN
         IF t \in {TodoWrite, ExitPlanMode, EnterPlanMode} THEN 10
         ELSE IF t \in {ReadTool, WriteTool, EditTool, GlobTool, GrepTool, NotebookEdit} THEN 30
         ELSE IF t \in {BashTool, KillShell} THEN 30
         ELSE IF t \in {WebFetch, WebSearch} THEN 120
         ELSE IF t \in {TaskTool, TaskOutput} THEN 180
         ELSE IF Contains(t, <<"m","c","p">>) \/ Contains(t, <<"M","C","P">>) THEN 120
         ELSE IF Contains(t, <<"P","l","a","y","w","r","i","g","h","t">>)
                 \/ Contains(t, <<"B","r","o","w","s","e","r">>) THEN 180
         ELSE 60

\* tool: Option<&str>
get_stale_threshold_for_tool(tool) ==
    IF tool = None THEN 60
    ELSE LET t == Get(tool) IN
         IF t \in {TodoWrite, ExitPlanMode, EnterPlanMode} THEN 10
         ELSE IF t \in {ReadTool, WriteTool, EditTool, GlobTool, GrepTool, NotebookEdit} THEN 30
         ELSE IF t \in {BashTool, KillShell} THEN 30
         ELSE IF t \in {WebFetch, WebSearch} THEN 120
         ELSE IF t \in {TaskTool, TaskOutput} THEN 180
         ELSE IF Contains(t, <<"P","l","a","y","w","r","i","g","h","t">>)
                 \/ Contains(t, <<"B","r","o","w","s","e","r">>) THEN 180
         ELSE IF Contains(t, <<"m","c","p">>) \/ Contains(t, <<"M","C","P">>) THEN 120
         ELSE 60

\* state: &str, tool: Option<&str>
get_stale_threshold_for_state(state, tool) ==
    IF state = "working" THEN get_stale_threshold_for_tool(tool)
    ELSE IF state \in {"waiting_for_approval", "waiting_for_input", "idle"}
         THEN WAITING_STATE_STALE_THRESHOLD
    ELSE get_stale_threshold_for_tool(tool)

is_stale_Inclusive(timestamp, current, stale_threshold) ==
    timestamp > 0 /\ (current - timestamp) >= stale_threshold

\* read_all_status_files: is_stale, for a status with this timestamp read at `current`
is_stale(timestamp, current, stale_threshold) ==
    timestamp > 0 /\ (current - timestamp) > stale_threshold

-----------------------------------------------------------------------------
(* Paths *)

P_p == <<"/","p">>
P_pSlash == <<"/","p","/">>
P_link == <<"/","l">>
P_q == <<"/","q">>
P_empty == << >>

\* The file tree that paths are resolved in: the directories / (the empty
\* list of names), /p and /q, and the symbolic link /l to /p.  Names are
\* compared as written (a case-sensitive file system).
TreeDirs == {<< >>, <<<<"p">>>>, <<<<"q">>>>}
TreeLinks == [n \in {<<<<"l">>>>} |-> <<<<"p">>>>]

\* The working directory of the process, where a relative path starts: /q.
WorkingDir == <<<<"q">>>>

\* The components of a path: the pieces between its slashes, empty ones
\* included.
RECURSIVE Components(_, _)
Components(path, piece) ==
    IF path = << >> THEN <<piece>>
    ELSE IF Head(path) = "/" THEN <<piece>> \o Components(Tail(path), << >>)
    ELSE Components(Tail(path), Append(piece, Head(path)))

\* The directory above `at`: the root is its own parent.
Parent(at) == IF at = << >> THEN at ELSE SubSeq(at, 1, Len(at) - 1)

\* Resolution of the components left, standing at the directory `at`: empty
\* components and "." stay, ".." goes to the parent, a name must be that of
\* a directory or of a link, and a link is followed.
RECURSIVE Resolve(_, _)
Resolve(at, comps) ==
    IF comps = << >> THEN Some(at)
    ELSE IF Head(comps) = << >> \/ Head(comps) = <<".">>
         THEN Resolve(at, Tail(comps))
    ELSE IF Head(comps) = <<".", ".">>
         THEN Resolve(Parent(at), Tail(comps))
    ELSE IF Append(at, Head(comps)) \in DOMAIN TreeLinks
         THEN Resolve(TreeLinks[Append(at, Head(comps))], Tail(comps))
    ELSE IF Append(at, Head(comps)) \in TreeDirs
         THEN Resolve(Append(at, Head(comps)), Tail(comps))
    ELSE None

\* The absolute path of a list of names.
RECURSIVE Absolute(_)
Absolute(names) ==
    IF names = << >> THEN << >>
    ELSE <<"/">> \o Head(names) \o Absolute(Tail(names))

\* The spelling of a resolved directory: "/" for the root.
Spelled(r) ==
    IF r = None THEN None
    ELSE IF Get(r) = << >> THEN Some(<<"/">>)
    ELSE Some(Absolute(Get(r)))

\* Path::canonicalize: the absolute path, free of ".", "..", repeated and
\* trailing slashes and symbolic links, of a path that exists; an error for
\* the empty path and for a path that does not exist.  An absolute path is
\* resolved from the root and a relative one from the working directory.
Canonical(path) ==
    IF path = << >> THEN None
    ELSE IF Head(path) = "/"
         THEN Spelled(Resolve(<< >>, Components(path, << >>)))
    ELSE Spelled(Resolve(WorkingDir, Components(path, << >>)))

\* The paths drawn: empty, the root, /p, /p/, /p//, the symlink /l, /l/,
\* /l/../q, /q, paths that differ from /p by case, by one more component,
\* by one more character, or by a missing leading slash, and the relative
\* paths "." and "..".
MatchPaths ==
    {<< >>, <<"/">>, <<"/","p">>, <<"/","p","/">>, <<"/","p","/","/">>,
     <<"/","l">>, <<"/","l","/">>, <<"/","l","/",".",".","/","q">>,
     <<"/","q">>, <<"/","P">>, <<"/","p","/","x">>,
     <<"/","p","p">>, <<"p">>, <<".">>, <<".",".">>}

\* Canonical over the paths of the model, computed once.
CanonicalOfPath == [path \in MatchPaths |-> Canonical(path)]

canonicalize(path) ==
    IF path \in MatchPaths THEN CanonicalOfPath[path] ELSE Canonical(path)

RECURSIVE trim_end_matches(_, _)
trim_end_matches(s, ch) ==
    IF Len(s) > 0 /\ s[Len(s)] = ch
    THEN trim_end_matches(SubSeq(s, 1, Len(s) - 1), ch)
    ELSE s

normalize_path(path) ==
    LET c == canonicalize(path)
        p == IF IsSome(c) THEN Get(c) ELSE path
    IN  trim_end_matches(p, "/")

paths_match_AllowEmpty(path1, path2) == path1 = path2

\* if path1.is_empty() || path2.is_empty() { return false; } path1 == path2
paths_match(path1, path2) ==
    IF path1 = << >> \/ path2 = << >> THEN FALSE ELSE path1 = path2

-----------------------------------------------------------------------------
(* Files of the status directory *)

\* A file name is <<stem, extension>>.
\* The names the hooks of configure_claude_hooks give the status files of
\* "/p", "/p/" and "/q": $(echo "$CLAUDE_PROJECT_DIR" | md5 | cut -c1-16).json
F_a == <<"4ec6c2b0b1c761fa", "json">>
F_b == <<"cd686a8c86a80aa0", "json">>
F_c == <<"b35c8d0b15f8f8e9", "json">>
\* The name get_status_file_path gives the status file of "/p" when the md5
\* utility does not run: format!("{:016x}", fold) with 47 * 31 + 112 = 0x621.
F_aFold == <<"0000000000000621", "json">>
F_names == <<"names", "json">>
F_backup == <<"hooks_backup", "json">>
\* The file ".json": what the same hooks name every status file when the md5
\* utility is missing.  Its file_stem is ".json" and it has no extension.
F_dot == <<".json", "">>
\* names.json.tmp: where the hooks' jq writes before mv puts it in place.
F_tmp == <<"names.json", "tmp">>

StatusNames == {F_a, F_b}

file_stem(name) == name[1]
extension(name) == name[2]

\* filename.ends_with(".json"): the extension is json, or there is none and
\* the stem ends in ".json" itself.
ends_with_json(name) ==
    extension(name) = "json" \/ (extension(name) = "" /\ file_stem(name) = ".json")

\* A file that was opened for writing and not written yet.
EmptyFile == None

\* JSON values: null, a string, a number, an array.
JNull == [t |-> "null"]
JStr(v) == [t |-> "str", v |-> v]
JNum(n) == [t |-> "num", n |-> n]
JArr(items) == [t |-> "arr", items |-> items]

\* The content of a file is None when it is text that does not begin with a
\* JSON value (the empty text included), and otherwise Some(record): an
\* object of the status schema, with each field None when the key is
\* missing; the object of names.json; a JSON array; bytes that are not
\* UTF-8; or a JSON value followed by text that is none.

\* names.json: a JSON object from session ids to names.
NamesObj(names) == Some([names |-> names])
IsNames(o) == "names" \in DOMAIN o

Obj(pp, st, ts, tool, reason, sid) ==
    Some([project_path |-> pp, state |-> st, timestamp |-> ts,
          last_tool |-> tool, waiting_reason |-> reason, session_id |-> sid])
IsObj(o) == "project_path" \in DOMAIN o

Arr(items) == Some(JArr(items))
IsArr(o) == "items" \in DOMAIN o

NotUtf8 == Some([bytes |-> TRUE])
IsBytes(o) == "bytes" \in DOMAIN o

\* Bytes that are not UTF-8 and that spell the JSON text `lossy` once every
\* invalid byte is replaced by U+FFFD, which is how jq decodes its input.
\* fs::read_to_string fails on them as on any such bytes.  (NotUtf8 stands
\* for bytes that are no JSON when decoded that way either.)
LossyBytes(lossy) == Some([bytes |-> TRUE, lossy |-> lossy])
IsLossy(o) == "lossy" \in DOMAIN o

\* Text that begins with the complete JSON value `lead` and goes on with
\* text that is no JSON: serde_json rejects the whole, jq reads `lead`
\* before it fails.
Trailing(lead) == Some([lead |-> lead])
IsTrailing(o) == "lead" \in DOMAIN o

\* The elements of a JSON array as serde's visit_seq takes them.
IsStr(v) == v.t = "str"
IsNum(v) == v.t = "num"
\* Option<String>: null or a string.
IsOptStr(v) == v.t = "null" \/ v.t = "str"
OptStr(v) == IF v.t = "str" THEN Some(v.v) ELSE None

\* serde_json::from_str::<StatusFile> of a JSON array: the fields in the
\* order of the struct.  project_path, state and waiting_reason must be
\* there; timestamp and last_tool (#[serde(default)]) may be missing at the
\* end; an element of the wrong type or one element too many is an error.
StatusFileOfSeq(items) ==
    IF Len(items) < 3 \/ Len(items) > 5 THEN None
    ELSE IF ~IsStr(items[1]) \/ ~IsStr(items[2]) \/ ~IsOptStr(items[3]) THEN None
    ELSE IF Len(items) >= 4 /\ ~IsNum(items[4]) THEN None
    ELSE IF Len(items) >= 5 /\ ~IsOptStr(items[5]) THEN None
    ELSE Some([project_path |-> items[1].v,
               state |-> items[2].v,
               waiting_reason |-> OptStr(items[3]),
               timestamp |-> IF Len(items) >= 4 THEN items[4].n ELSE 0,
               last_tool |-> IF Len(items) >= 5 THEN OptStr(items[5]) ELSE None])

\* serde_json::from_str::<StatusFile> of an object from keys to strings, as
\* names.json holds: a string is no timestamp.
StatusFileOfMap(m) ==
    IF {"project_path", "state"} \subseteq DOMAIN m /\ "timestamp" \notin DOMAIN m
    THEN Some([project_path |-> m["project_path"],
               state |-> m["state"],
               waiting_reason |-> IF "waiting_reason" \in DOMAIN m
                                  THEN Some(m["waiting_reason"]) ELSE None,
               timestamp |-> 0,
               last_tool |-> IF "last_tool" \in DOMAIN m
                             THEN Some(m["last_tool"]) ELSE None])
    ELSE None

\* serde_json::from_str::<StatusFile>: of an object, project_path and state
\* are required, timestamp defaults to 0, last_tool and waiting_reason are
\* optional; an array is taken field by field.
ParseStatusFile(content) ==
    IF content = None THEN None
    ELSE IF IsArr(Get(content)) THEN StatusFileOfSeq(Get(content).items)
    ELSE IF IsNames(Get(content)) THEN StatusFileOfMap(Get(content).names)
    ELSE IF ~IsObj(Get(content)) THEN None
    ELSE LET o == Get(content) IN
         IF o.project_path = None \/ o.state = None THEN None
         ELSE Some([project_path |-> Get(o.project_path),
                    state |-> Get(o.state),
                    waiting_reason |-> o.waiting_reason,
                    timestamp |-> IF o.timestamp = None THEN 0 ELSE Get(o.timestamp),
                    last_tool |-> o.last_tool])

\* read_all_status_files: the match on status.state
SessionStateOf(state) ==
    IF state = "working" THEN "Working"
    ELSE IF state = "waiting_for_approval" THEN "WaitingForApproval"
    ELSE IF state = "waiting_for_input" THEN "WaitingForInput"
    ELSE IF state = "idle" THEN "Idle"
    ELSE "Unknown"

\* scan_directory_for_jsonl: the match on the ClaudeSessionState
StateStr(state) ==
    IF state = "Working" THEN "working"
    ELSE IF state = "WaitingForApproval" THEN "waiting_for_approval"
    ELSE IF state = "WaitingForInput" THEN "waiting_for_input"
    ELSE IF state = "Idle" THEN "idle"
    ELSE "unknown"

\* The ClaudeSession that read_all_status_files pushes for file `name`.
StoreSession(name, status) ==
    [session_id |-> file_stem(name),
     project_path |-> status.project_path,
     state |-> SessionStateOf(status.state),
     waiting_reason |-> status.waiting_reason,
     timestamp |-> status.timestamp,
     last_tool |-> status.last_tool]

\* What read_all_status_files does with one directory entry, given what
\* fs::read_to_string returned for it (None: the read failed):
\* "not_json_ext", "unreadable", "unparsed", "empty_path", "stale" or "fresh".
StoreDecision(name, read, current) ==
    IF extension(name) # "json" THEN "not_json_ext"
    ELSE IF read = None THEN "unreadable"
    ELSE LET parsed == ParseStatusFile(Get(read)) IN
         IF parsed = None THEN "unparsed"
         ELSE LET status == Get(parsed)
                  stale_threshold ==
                      get_stale_threshold_for_state(status.state, status.last_tool)
              IN  IF status.project_path = << >> THEN "empty_path"
                  ELSE IF is_stale(status.timestamp, current, stale_threshold)
                  THEN "stale" ELSE "fresh"

\* What a directory holds under a name: None when there is no such file.
Held(dir, name) == IF name \in DOMAIN dir THEN Some(dir[name]) ELSE None

\* fs::read_to_string of a directory entry: None (an error) when the file is
\* gone and when its bytes are not UTF-8.
ReadFile(dir, name) ==
    IF name \notin DOMAIN dir THEN None
    ELSE IF dir[name] # None /\ IsBytes(Get(dir[name])) THEN None
    ELSE Some(dir[name])

RemoveFile_Keep(dir, name) == dir

\* fs::remove_file
RemoveFile(dir, name) == [n \in (DOMAIN dir) \ {name} |-> dir[n]]

\* fs::write, and the shell's `> file`
WriteFile(dir, name, content) ==
    [n \in (DOMAIN dir) \cup {name} |-> IF n = name THEN content ELSE dir[n]]

-----------------------------------------------------------------------------
(* Transcripts (JSONL) *)

\* A line is None when it does not parse as a JsonlEntry, else Some(entry).
\* A timestamp string is a record: whether it is RFC 3339, and the instant
\* it then denotes.
Rfc(epoch) == Some([rfc3339 |-> TRUE, epoch |-> epoch])
BadTime == Some([rfc3339 |-> FALSE, epoch |-> 0])

\* chrono::DateTime::parse_from_rfc3339(ts_str).timestamp()
parse_from_rfc3339(ts_str) ==
    IF ts_str.rfc3339 THEN Some(ts_str.epoch) ELSE None

Entry(type, msg, ts, cwd) ==
    Some([entry_type |-> type, message |-> msg, timestamp |-> ts, cwd |-> cwd])

Msg(role, content, stop) ==
    Some([role |-> role, content |-> content, stop_reason |-> stop])

ToolUse(name) == [content_type |-> Some("tool_use"), name |-> name]
TextItem == [content_type |-> Some("text"), name |-> None]

RecentLines_WholeFile(lines) == lines

\* lines.iter().rev().take(10), read again in reverse: the last 10 lines in
\* file order.
RecentLines(lines) ==
    IF Len(lines) <= 10 THEN lines ELSE SubSeq(lines, Len(lines) - 9, Len(lines))

\* for content in &msg.content { if tool_use { last_tool = content.name } }
RECURSIVE ToolOfContent(_, _)
ToolOfContent(content, last_tool) ==
    IF content = << >> THEN last_tool
    ELSE ToolOfContent(Tail(content),
                       IF Head(content).content_type = Some("tool_use")
                       THEN Head(content).name ELSE last_tool)

\* The loop of parse_jsonl_for_state over the recent lines, with its three
\* accumulators; the result is [kind, state, last_tool, timestamp].
RECURSIVE ParseLoop(_, _, _, _)
ParseLoop(lines, last_timestamp, last_tool, last_state) ==
    IF lines = << >>
    THEN IF last_timestamp > 0 /\ last_state # "Unknown"
         THEN [kind |-> "Active", state |-> last_state,
               last_tool |-> last_tool, timestamp |-> last_timestamp]
         ELSE [kind |-> "Unknown", state |-> "Unknown",
               last_tool |-> None, timestamp |-> 0]
    ELSE LET line == Head(lines) IN
         IF line = None
         THEN ParseLoop(Tail(lines), last_timestamp, last_tool, last_state)
         ELSE LET entry == Get(line)
                  ts == IF entry.timestamp # None
                           /\ parse_from_rfc3339(Get(entry.timestamp)) # None
                        THEN Get(parse_from_rfc3339(Get(entry.timestamp)))
                        ELSE last_timestamp
                  msg == entry.message
                  role == IF msg = None THEN None ELSE Get(msg).role
                  stop == IF msg = None THEN None ELSE Get(msg).stop_reason
                  st == IF role = Some("user") THEN "Working"
                        ELSE IF role = Some("assistant")
                        THEN IF stop = Some("tool_use") THEN "WaitingForApproval"
                             ELSE IF stop = Some("end_turn") THEN "WaitingForInput"
                             ELSE "Working"
                        ELSE last_state
                  tool == IF role = Some("assistant") /\ stop = Some("tool_use")
                          THEN ToolOfContent(Get(msg).content, last_tool)
                          ELSE last_tool
              IN  IF entry.entry_type = Some("summary")
                  THEN [kind |-> "SessionEnded", state |-> "Unknown",
                        last_tool |-> None, timestamp |-> 0]
                  ELSE ParseLoop(Tail(lines), ts, tool, st)

parse_jsonl_for_state_OldestFirst(lines) ==
    LET recent == RecentLines(lines) IN
    ParseLoop([i \in 1..Len(recent) |-> recent[Len(recent) + 1 - i]], 0, None, "Unknown")

parse_jsonl_for_state_IgnoreSummary(lines) ==
    ParseLoop(SelectSeq(RecentLines(lines),
                        LAMBDA l : l = None \/ Get(l).entry_type # Some("summary")),
              0, None, "Unknown")

\* lines: the transcript's content.lines()
parse_jsonl_for_state(lines) ==
    ParseLoop(RecentLines(lines), 0, None, "Unknown")

\* The cwd of the first line, when it parses.
get_project_path_from_jsonl(lines) ==
    IF lines = << >> THEN None
    ELSE IF Head(lines) = None THEN None
    ELSE Get(Head(lines)).cwd

\* get_status_file_path over the paths a transcript of the model names as
\* its cwd ("/p", "/p/", "/q", ""): the first 16 hex digits of
\* md5(project_path "\n") when the md5 utility runs, and the 31-multiplier fold
\* of the path's bytes, as 16 hex digits, when it does not.
get_status_file_path(project_path, md5_ok) ==
    IF md5_ok
    THEN IF project_path = P_p THEN F_a
         ELSE IF project_path = P_pSlash THEN F_b
         ELSE IF project_path = P_q THEN F_c
         ELSE <<"68b329da9893e340", "json">>
    ELSE IF project_path = P_p THEN F_aFold
         ELSE IF project_path = P_pSlash THEN <<"000000000000be2e", "json">>
         ELSE IF project_path = P_q THEN <<"0000000000000622", "json">>
         ELSE <<"0000000000000000", "json">>

\* What scan_directory_for_jsonl does with one file of a scanned directory:
\* [outcome, session, cwd], outcome one of "not_jsonl", "no_cwd",
\* "other_path", "ended", "fresh", "stale", "unknown".
NoSession ==
    [session_id |-> "", project_path |-> << >>, state |-> "Unknown",
     waiting_reason |-> None, timestamp |-> 0, last_tool |-> None]

ScanTranscript(file, normalized_target, current) ==
    IF file.ext # "jsonl"
    THEN [outcome |-> "not_jsonl", session |-> NoSession, cwd |-> << >>]
    ELSE LET c == get_project_path_from_jsonl(file.lines) IN
         IF c = None
         THEN [outcome |-> "no_cwd", session |-> NoSession, cwd |-> << >>]
         ELSE LET cwd == Get(c) IN
              IF ~paths_match(normalize_path(cwd), normalized_target)
              THEN [outcome |-> "other_path", session |-> NoSession, cwd |-> cwd]
              ELSE LET r == parse_jsonl_for_state(file.lines) IN
                   IF r.kind = "SessionEnded"
                   THEN [outcome |-> "ended", session |-> NoSession, cwd |-> cwd]
                   ELSE IF r.kind = "Unknown"
                   THEN [outcome |-> "unknown", session |-> NoSession, cwd |-> cwd]
                   ELSE LET stale_threshold ==
                                get_stale_threshold_for_state(StateStr(r.state), r.last_tool)
                        IN  IF (current - r.timestamp) < stale_threshold
                            THEN [outcome |-> "fresh",
                                  session |-> [session_id |-> file.stem,
                                               project_path |-> cwd,
                                               state |-> r.state,
                                               waiting_reason |-> None,
                                               timestamp |-> r.timestamp,
                                               last_tool |-> r.last_tool],
                                  cwd |-> cwd]
                            ELSE [outcome |-> "stale", session |-> NoSession, cwd |-> cwd]

\* serde_json::from_str::<ClaudeSession> of a JSON array: project_path,
\* session_id, state, timestamp (a u64) and name (null or a string), all
\* five and no more; raw_json is not read from the text.
ClaudeSessionOfSeq(items, content) ==
    IF Len(items) # 5 THEN None
    ELSE IF ~IsStr(items[1]) \/ ~IsStr(items[2]) \/ ~IsStr(items[3])
            \/ ~IsNum(items[4]) \/ ~IsOptStr(items[5]) THEN None
    ELSE IF items[4].n < 0 THEN None
    ELSE Some([project_path |-> items[1].v,
               session_id |-> items[2].v,
               state |-> items[3].v,
               timestamp |-> items[4].n,
               name |-> OptStr(items[5]),
               raw_json |-> content])

\* serde_json::from_str::<ClaudeSession> of claude_status.rs: of an object,
\* project_path, session_id, state and timestamp (a u64) are required; name
\* is optional and no object of the model carries one; an array is taken
\* field by field; raw_json is filled in by the caller.
ParseClaudeSession(content) ==
    IF content = None THEN None
    ELSE IF IsArr(Get(content)) THEN ClaudeSessionOfSeq(Get(content).items, content)
    ELSE IF ~IsObj(Get(content)) THEN None
    ELSE LET o == Get(content) IN
         IF o.project_path = None \/ o.session_id = None \/ o.state = None
            \/ o.timestamp = None
         THEN None
         ELSE IF Get(o.timestamp) < 0 THEN None
         ELSE Some([project_path |-> Get(o.project_path),
                    session_id |-> Get(o.session_id),
                    state |-> Get(o.state),
                    timestamp |-> Get(o.timestamp),
                    name |-> None,
                    raw_json |-> content])

\* sessions.sort_by(|a, b| b.timestamp.cmp(&a.timestamp)): a stable sort,
\* newest first.
RECURSIVE InsertByTimestamp(_, _)
InsertByTimestamp(sorted, x) ==
    IF sorted = << >> THEN <<x>>
    ELSE IF Head(sorted).timestamp >= x.timestamp
         THEN <<Head(sorted)>> \o InsertByTimestamp(Tail(sorted), x)
         ELSE <<x>> \o sorted

RECURSIVE SortByTimestampDesc(_)
SortByTimestampDesc(sessions) ==
    IF sessions = << >> THEN << >>
    ELSE InsertByTimestamp(SortByTimestampDesc(SubSeq(sessions, 1, Len(sessions) - 1)),
                           sessions[Len(sessions)])

\* The keys a status object carries.
KeysOf(o) == { k \in DOMAIN o : o[k] # None }

\* serde_json::from_str::<HashMap<String, String>>(..).unwrap_or_default()
\* of the text of names.json: the map it spells.  A status object whose
\* values are all strings (it has no timestamp) is such a map, from its keys
\* to their values.  Anything else gives the empty map.
NamesOf(content) ==
    IF content = None THEN << >>
    ELSE IF IsNames(Get(content)) THEN Get(content).names
    ELSE IF IsObj(Get(content)) /\ Get(content).timestamp = None
         THEN [k \in KeysOf(Get(content)) |-> Get(Get(content)[k])]
    ELSE << >>

\* read_session_names(): the empty map when names.json is not there or
\* cannot be read.
read_session_names(dir) ==
    IF ReadFile(dir, F_names) = None THEN << >>
    ELSE NamesOf(Get(ReadFile(dir, F_names)))

\* The loop of list_sessions over the entries in the order `order`, with
\* the merge of the name kept in names.json.
RECURSIVE ListLoop(_, _, _, _)
ListLoop(dir, order, names, sessions) ==
    IF order = << >> THEN sessions
    ELSE LET name == Head(order)
             skip == ~ends_with_json(name) \/ name = F_names \/ name = F_backup
             read == IF skip THEN None ELSE ReadFile(dir, name)
             parsed == IF read = None THEN None
                       ELSE ParseClaudeSession(Get(read))
             session == Get(parsed)
             merged == IF session.name = None /\ session.session_id \in DOMAIN names
                       THEN [session EXCEPT !.name = Some(names[session.session_id])]
                       ELSE session
         IN  ListLoop(dir, Tail(order), names,
                      IF parsed = None THEN sessions ELSE Append(sessions, merged))

\* list_sessions() over the status directory `dir` enumerated in `order`.
list_sessions(exists, dir, order) ==
    IF ~exists THEN [ok |-> TRUE, sessions |-> << >>]
    ELSE [ok |-> TRUE,
          sessions |-> SortByTimestampDesc(
                           ListLoop(dir, order, read_session_names(dir), << >>))]

\* remove_session_name(session_id): nothing when names.json is not there
\* (Ok) or cannot be read (Err); otherwise the map read from it (the empty
\* map when it does not parse), without session_id, is written back.
remove_session_name(dir, session_id) ==
    IF F_names \notin DOMAIN dir THEN dir
    ELSE IF ReadFile(dir, F_names) = None THEN dir
    ELSE LET names == NamesOf(dir[F_names]) IN
         WriteFile(dir, F_names,
                   NamesObj([k \in (DOMAIN names) \ {session_id} |-> names[k]]))

\* The orders in which fs::read_dir may yield the entries of a directory.
Enumerations(names) ==
    { f \in [1..Cardinality(names) -> names] :
        \A i, j \in 1..Cardinality(names) : i # j => f[i] # f[j] }

\* The files that differ between two states of the directory, as the set of
\* changes [by, name, held, after, at].
Changes(by, before, after, at) ==
    { [by |-> by, name |-> n, held |-> Held(before, n),
       after |-> Held(after, n), at |-> at] :
        n \in { m \in (DOMAIN before) \cup (DOMAIN after) :
                  Held(before, m) # Held(after, m) } }

-----------------------------------------------------------------------------
(* The inputs of the model *)

\* Status files found at start.  Ages are chosen at the thresholds: C_work
\* and C_idle are fresh at T0 and stale one second later; C_zero has no
\* timestamp and a state the code does not know.
C_work == Obj(Some(P_p), Some("working"), Some(T0 - 60), None, None, None)
C_idle == Obj(Some(P_pSlash), Some("idle"), Some(T0 - 600), Some(WebFetch), None,
              Some("s1"))
C_zero == Obj(Some(P_q), Some("paused"), None, Some(McpGithub), None, Some("s2"))
C_emptyPath == Obj(Some(P_empty), Some("idle"), Some(T0), None, None, Some("s3"))
C_garbage == None
\* A record of /q that a writer left without its "state" key.
C_noState == Obj(Some(P_q), None, Some(T0), Some(ReadTool), None, Some("s4"))

\* A record of /q written as a JSON array, in the order of StatusFile's
\* fields: working with Bash, fresh at T0 and stale one second later.
C_array == Arr(<<JStr(P_q), JStr("working"), JNull, JNum(T0 - 30), JStr(BashTool)>>)
\* A file whose bytes are not UTF-8.
C_bytes == NotUtf8

InitContents ==
    {C_work, C_idle, C_zero, C_emptyPath, C_garbage, C_noState, C_array, C_bytes}

\* What the hooks of the session in /p do (configure_claude_hooks).  The
\* file they name is that of /p when the md5 utility runs, and ".json" when
\* it does not: the command substitution is then empty.
HookName(md5_ok) == IF md5_ok THEN F_a ELSE F_dot

\* The records the writing hooks echo, with the value `current` of
\* $(date +%s): PreToolUse and PostToolUse, PermissionRequest, Notification,
\* SessionStart.
HookContents(current) ==
    { Obj(Some(P_p), Some("working"), Some(current), Some(BashTool), None, None),
      Obj(Some(P_p), Some("waiting_for_approval"), Some(current), None,
          Some(BashTool), None),
      Obj(Some(P_p), Some("waiting_for_input"), Some(current), None, None, None),
      Obj(Some(P_p), Some("working"), Some(current), None, None, None) }

\* Stop and SessionEnd remove the file of the same name.
HookRemoves(md5_ok) == {HookName(md5_ok)}

\* Transcripts.  Each file is [stem, ext, lines].
UserLine(cwd, t) == Entry(Some("user"), Msg(Some("user"), << >>, None), Rfc(t), cwd)
EndTurnLine(t) ==
    Entry(Some("assistant"), Msg(Some("assistant"), <<TextItem>>, Some("end_turn")),
          Rfc(t), None)
ToolUseLine(cwd, tool, t) ==
    Entry(Some("assistant"),
          Msg(Some("assistant"), <<TextItem, ToolUse(Some(tool))>>, Some("tool_use")),
          Rfc(t), cwd)
SummaryLine == Entry(Some("summary"), None, None, None)

X_ended ==
    [stem |-> "t1", ext |-> "jsonl",
     lines |-> <<UserLine(Some(P_p), T0 - 30), EndTurnLine(T0 - 20), SummaryLine>>]
X_approval ==
    [stem |-> "t2", ext |-> "jsonl",
     lines |-> <<ToolUseLine(Some(P_pSlash), BashTool, T0 - 599)>>]
X_working ==
    [stem |-> "t3", ext |-> "jsonl",
     lines |-> <<UserLine(Some(P_q), T0 - 59), None>>]

\* The projects directory found at start: empty, or one transcript of a
\* session in /p and one of a session in /q.
InitTranscripts ==
    { [i \in D |-> IF i = 1 THEN f1 ELSE X_working] :
        D \in {{}, {1, 2}}, f1 \in {X_ended, X_approval} }

\* The paths the consumer asks about.
QueryPaths == {P_link}
QueryLists == {<<P_pSlash, P_q>>}

-----------------------------------------------------------------------------
(* The consumer's call *)

QIdle ==
    [pc |-> "idle", kind |-> "none", paths |-> << >>, idx |-> 1,
     qnow |-> 0, entries |-> {}, todo |-> {}, all_sessions |-> << >>, pending |-> None,
     jnow |-> 0, jtodo |-> {}, jsessions |-> << >>,
     results |-> << >>, slog |-> {}, rmlog |-> {}, jlog |-> {},
     listed |-> [ok |-> TRUE, sessions |-> << >>],
     del |-> [id |-> "", found |-> FALSE, result |-> "none"]]

PolIdle == [applied |-> FALSE, state |-> "", tool |-> None, timestamp |-> 0,
            current |-> 0, threshold |-> 0, stale |-> FALSE]

\* The watcher before start: no debouncer, nothing in the channel, no
\* listener thread.  t is the monotonic clock in milliseconds; fs, first,
\* last and unnotified record the changes made to the directory so far.
\* failed counts the calls of start that returned Err before one returned
\* Ok (such a call leaves nothing behind, so start can be called again);
\* again and refused count the calls of start made after a successful one
\* that returned Ok and Err; spare counts the listener threads those calls
\* spawned that have not ended yet; before is the number of changes made to
\* the directory before the first of them returned Ok.  other is the watcher
\* of the other start function, whose state is of another type: its
\* debouncer, channel and listener (its t is not used: the clock is watch.t).
OtherIdle ==
    [state |-> "Stopped", listener |-> FALSE, timeout |-> 0, t |-> 0,
     event_map |-> {}, deadline |-> None, chan |-> << >>]

WatchIdle ==
    [state |-> "Stopped", result |-> "none", fail |-> "none", managed |-> FALSE,
     listener |-> FALSE, timeout |-> 0, t |-> 0, event_map |-> {},
     deadline |-> None, chan |-> << >>, emitted |-> 0, errors |-> 0,
     fs |-> 0, first |-> None, last |-> None, unnotified |-> FALSE,
     failed |-> 0, again |-> 0, refused |-> 0, spare |-> 0, before |-> 0,
     other |-> OtherIdle]

\* ~/.claude/settings.json absent and no installer call made.  run holds the
\* calls that have read the file and not written it yet (each with the image
\* it read), hist the calls that returned, in the order they returned.
SettingsIdle == [file |-> None, run |-> << >>, hist |-> << >>]

has_pending_input_NoIdle(active_sessions) ==
    \E i \in 1..Len(active_sessions) :
        active_sessions[i].state \in {"WaitingForApproval", "WaitingForInput"}

\* active_sessions.iter().any(|s| matches!(s.state, ...))
has_pending_input(active_sessions) ==
    \E i \in 1..Len(active_sessions) :
        active_sessions[i].state \in {"WaitingForApproval", "WaitingForInput", "Idle"}

\* all_sessions filtered by paths_match(normalize_path(project_path), normalized)
MatchingSessions(all_sessions, worktree_path) ==
    SelectSeq(all_sessions,
              LAMBDA session :
                  paths_match(normalize_path(session.project_path),
                              normalize_path(worktree_path)))

NeedsFallback_Always(active_sessions) == TRUE

\* if active_sessions.is_empty() { active_sessions = find_sessions_from_jsonl(..) }
NeedsFallback(active_sessions) == active_sessions = << >>

NextTodo_Abort(todo, name, decision) ==
    IF decision \in {"unparsed", "unreadable"} THEN {} ELSE todo \ {name}

\* The for loop over the directory entries goes on with the entries left,
\* whatever it did with this one.
NextTodo(todo, name, decision) == todo \ {name}

\* WorktreeClaudeStatus, with what the call did to get it: `fallback` is
\* whether find_sessions_from_jsonl ran for this path.
Status(worktree_path, active_sessions, fallback) ==
    [path |-> worktree_path,
     active_sessions |-> active_sessions,
     has_pending_input |-> has_pending_input(active_sessions),
     fallback |-> fallback]

\* The call's record after the status of paths[idx] is known.
FinishPath(c, active_sessions, fallback) ==
    [c EXCEPT !.results = Append(@, Status(c.paths[c.idx], active_sessions, fallback)),
              !.idx = @ + 1,
              !.pc = IF c.idx + 1 > Len(c.paths) THEN "done" ELSE "path"]

\* get_claude_status(worktree_path) and get_all_claude_statuses(worktree_paths)
\* begin with read_all_status_files: the early return when the directory is
\* missing, and the clock.  The directory is listed in a later step.
StartQuery(kind, paths) ==
    /\ q.pc = "idle"
    /\ q' = [QIdle EXCEPT !.kind = kind, !.paths = paths, !.qnow = now,
                          !.pc = IF dirExists THEN "list" ELSE "path"]
    /\ UNCHANGED <<now, dirExists, statusDir, transcripts, dlog, budget, pol, watch, settings>>

GetClaudeStatus == \E p \in QueryPaths : StartQuery("single", <<p>>)

GetAllClaudeStatuses == \E ps \in QueryLists : StartQuery("all", ps)

\* fs::read_dir(&status_dir) of read_all_status_files, after the clock was
\* read.
ListStatusDir ==
    /\ q.pc = "list"
    /\ q' = [q EXCEPT !.entries = DOMAIN statusDir,
                      !.todo = DOMAIN statusDir,
                      !.pc = IF DOMAIN statusDir # {} THEN "scan" ELSE "path"]
    /\ UNCHANGED <<now, dirExists, statusDir, transcripts, dlog, budget, pol, watch, settings>>

\* One turn of the loop of read_all_status_files, up to the removal of a
\* stale file.
ScanStep ==
    /\ q.pc = "scan"
    /\ \E name \in q.todo :
        LET read == ReadFile(statusDir, name)
            decision == StoreDecision(name, read, q.qnow)
            todo == NextTodo(q.todo, name, decision)
        IN  q' = [q EXCEPT
                    !.todo = todo,
                    !.slog = @ \cup {[name |-> name, read |-> read,
                                       decision |-> decision,
                                       after_malformed |->
                                           \E e \in q.slog :
                                               e.decision \in {"unreadable", "unparsed"}]},
                    !.pending = IF decision = "stale" THEN Some(name) ELSE None,
                    !.all_sessions =
                        IF decision = "fresh"
                        THEN Append(@, StoreSession(name, Get(ParseStatusFile(Get(read)))))
                        ELSE @,
                    !.pc = IF decision = "stale" THEN "rm"
                           ELSE IF todo # {} THEN "scan" ELSE "path"]
    /\ UNCHANGED <<now, dirExists, statusDir, transcripts, dlog, budget, pol, watch, settings>>

\* let _ = fs::remove_file(&path) of the file just found stale.
RemoveStale ==
    /\ q.pc = "rm"
    /\ LET name == Get(q.pending) IN
        /\ statusDir' = RemoveFile(statusDir, name)
        /\ dlog' = dlog \cup Changes("store", statusDir, statusDir', now)
        /\ q' = [q EXCEPT !.pending = None,
                          !.rmlog = @ \cup {[name |-> name,
                                             gone |-> name \notin DOMAIN statusDir']},
                          !.pc = IF q.todo # {} THEN "scan" ELSE "path"]
    /\ UNCHANGED <<now, dirExists, transcripts, budget, pol, watch, settings>>

\* The filter for paths[idx], and either the result or the start of
\* find_sessions_from_jsonl (its clock, the listing of the projects directory).
PathStep ==
    /\ q.pc = "path"
    /\ LET active == MatchingSessions(q.all_sessions, q.paths[q.idx]) IN
        q' = IF ~NeedsFallback(active)
             THEN FinishPath(q, active, FALSE)
             ELSE IF DOMAIN transcripts = {}
             THEN FinishPath(q, << >>, TRUE)
             ELSE [q EXCEPT !.pc = "jscan", !.jnow = now,
                            !.jtodo = DOMAIN transcripts,
                            !.jsessions = << >>]
    /\ UNCHANGED <<now, dirExists, statusDir, transcripts, dlog, budget, pol, watch, settings>>

\* Whether the md5 utility ran, for a transcript with this outcome: the
\* utility is run by remove_status_file_for_project, for an ended transcript.
Md5Runs(outcome) == IF outcome = "ended" THEN BOOLEAN ELSE {FALSE}

\* One file of scan_directory_for_jsonl, remove_status_file_for_project
\* included; md5_ok is whether the md5 utility ran, and key the file that
\* remove_status_file_for_project names (no file, << >>, when it is not
\* called).
JScanStep ==
    /\ q.pc = "jscan"
    /\ \E t \in q.jtodo :
       \E md5_ok \in Md5Runs(ScanTranscript(transcripts[t],
                                            normalize_path(q.paths[q.idx]),
                                            q.jnow).outcome) :
        LET r == ScanTranscript(transcripts[t], normalize_path(q.paths[q.idx]), q.jnow)
            key == IF r.outcome = "ended" THEN get_status_file_path(r.cwd, md5_ok)
                   ELSE << >>
            removes == r.outcome = "ended" /\ key \in DOMAIN statusDir
            sessions == IF r.outcome = "fresh"
                        THEN Append(q.jsessions, r.session) ELSE q.jsessions
        IN  /\ statusDir' = IF removes THEN RemoveFile(statusDir, key) ELSE statusDir
            /\ dlog' = dlog \cup Changes("fallback", statusDir, statusDir', now)
            /\ LET c == [q EXCEPT
                           !.jtodo = @ \ {t},
                           !.jsessions = sessions,
                           !.jlog = @ \cup {[id |-> t, path |-> q.paths[q.idx],
                                              outcome |-> r.outcome, key |-> key,
                                              jnow |-> q.jnow,
                                              gone |-> key \notin DOMAIN statusDir']}]
               IN  q' = IF c.jtodo = {} THEN FinishPath(c, sessions, TRUE) ELSE c
    /\ UNCHANGED <<now, dirExists, transcripts, budget, pol, watch, settings>>

\* The identifiers the consumer passes to delete_session: the stem of the
\* status file of /p, and the session_id written inside C_idle.
DeleteIds == {file_stem(F_a), "s1"}

\* status_dir.join(format!("{}.json", session_id))
DeleteName(session_id) == <<session_id, "json">>

\* What delete_session returns after its remove_file, given whether the file
\* was still there.
remove_result(present) == IF present THEN "Ok" ELSE "Err"

\* list_sessions(), the whole call, for one enumeration of the directory.
ListSessions ==
    /\ q.pc = "idle"
    /\ \E order \in Enumerations(DOMAIN statusDir) :
        q' = [QIdle EXCEPT !.kind = "list", !.pc = "done",
                           !.listed = list_sessions(dirExists, statusDir, order)]
    /\ UNCHANGED <<now, dirExists, statusDir, transcripts, dlog, budget, pol, watch, settings>>

\* delete_session(session_id) up to `if file_path.exists()`.  When the file
\* is not there the call goes on to remove_session_name.
DeleteSession ==
    /\ q.pc = "idle"
    /\ \E session_id \in DeleteIds :
        LET found == DeleteName(session_id) \in DOMAIN statusDir IN
        q' = [QIdle EXCEPT !.kind = "delete",
                           !.del = [id |-> session_id, found |-> found,
                                    result |-> "none"],
                           !.pc = IF found THEN "del_rm" ELSE "del_names"]
    /\ UNCHANGED <<now, dirExists, statusDir, transcripts, dlog, budget, pol, watch, settings>>

\* fs::remove_file(&file_path).map_err(..)? of delete_session.  remove_file
\* of a file that is gone by now fails with NotFound, and the ? returns that
\* error before remove_session_name is reached.
DeleteRemove ==
    /\ q.pc = "del_rm"
    /\ LET name == DeleteName(q.del.id)
           result == remove_result(name \in DOMAIN statusDir)
       IN  /\ statusDir' = RemoveFile(statusDir, name)
           /\ q' = [q EXCEPT !.pc = IF result = "Ok" THEN "del_names" ELSE "done",
                             !.del.result = IF result = "Ok" THEN "none" ELSE "Err"]
    /\ UNCHANGED <<now, dirExists, transcripts, dlog, budget, pol, watch, settings>>

\* let _ = remove_session_name(session_id); Ok(())
DeleteNames ==
    /\ q.pc = "del_names"
    /\ statusDir' = remove_session_name(statusDir, q.del.id)
    /\ q' = [q EXCEPT !.pc = "done", !.del.result = "Ok"]
    /\ UNCHANGED <<now, dirExists, transcripts, dlog, budget, pol, watch, settings>>

-----------------------------------------------------------------------------
(* The environment: the hooks of the assistant's sessions, and time.  A      *)
(* behaviour is followed until the consumer's call has returned.           *)

\* A writing hook is four steps of its shell, and other processes run
\* between them.  budget.writing is the hook under way: [pc, name, date],
\* with the file it opened and the value of the clock it read.  Which of the
\* writing hooks it is shows only in the record written, and is drawn there.
\* First `mkdir -p` of the status directory.
HookMkdir ==
    /\ q.pc # "done"
    /\ budget.hooks > 0
    /\ budget.writing = None
    /\ budget' = [budget EXCEPT !.hooks = @ - 1,
                                !.writing = Some([pc |-> "date", name |-> None,
                                                  date |-> 0])]
    /\ dirExists' = TRUE
    /\ UNCHANGED <<now, statusDir, transcripts, q, dlog, pol, watch, settings>>

\* The words of the echo command are expanded: $(date +%s) reads the clock.
HookDate ==
    /\ q.pc # "done"
    /\ budget.writing # None
    /\ Get(budget.writing).pc = "date"
    /\ budget' = [budget EXCEPT !.writing = Some([pc |-> "open", name |-> None,
                                                  date |-> now])]
    /\ UNCHANGED <<now, dirExists, statusDir, transcripts, q, dlog, pol, watch, settings>>

\* The redirection: the md5 pipeline gives the name, and the open creates
\* or truncates the file.
HookOpen ==
    /\ q.pc # "done"
    /\ budget.writing # None
    /\ Get(budget.writing).pc = "open"
    /\ \E md5_ok \in BOOLEAN :
        /\ budget' = [budget EXCEPT !.writing =
                          Some([Get(budget.writing) EXCEPT
                                    !.pc = "write", !.name = HookName(md5_ok)])]
        /\ statusDir' = WriteFile(statusDir, HookName(md5_ok), EmptyFile)
    /\ UNCHANGED <<now, dirExists, transcripts, q, dlog, pol, watch, settings>>

\* echo writes the record into the file it was given.  A file unlinked in
\* the meantime does not come back.
HookWrite ==
    /\ q.pc # "done"
    /\ budget.writing # None
    /\ Get(budget.writing).pc = "write"
    /\ \E c \in HookContents(Get(budget.writing).date) :
        statusDir' = IF Get(budget.writing).name \in DOMAIN statusDir
                     THEN WriteFile(statusDir, Get(budget.writing).name, c)
                     ELSE statusDir
    /\ budget' = [budget EXCEPT !.writing = None]
    /\ UNCHANGED <<now, dirExists, transcripts, q, dlog, pol, watch, settings>>

\* Stop and SessionEnd: rm -f of the file the md5 pipeline names.
HookRemove ==
    /\ q.pc # "done"
    /\ budget.hooks > 0
    /\ budget.writing = None
    /\ budget' = [budget EXCEPT !.hooks = @ - 1]
    /\ \E md5_ok \in BOOLEAN :
        \E name \in HookRemoves(md5_ok) : statusDir' = RemoveFile(statusDir, name)
    /\ UNCHANGED <<now, dirExists, transcripts, q, dlog, pol, watch, settings>>

Tick ==
    /\ q.pc # "done"
    /\ budget.ticks > 0
    /\ budget' = [budget EXCEPT !.ticks = @ - 1]
    /\ now' = now + 1
    /\ UNCHANGED <<dirExists, statusDir, transcripts, q, dlog, pol, watch, settings>>

-----------------------------------------------------------------------------

\* The directories found at start: each name is absent or holds one of the
\* contents listed for it.
InitChoices ==
    [n \in StatusNames |->
        IF n = F_a THEN {None, Some(C_work), Some(C_emptyPath), Some(C_bytes)}
        ELSE {None, Some(C_idle), Some(C_zero), Some(C_garbage), Some(C_noState),
              Some(C_array)}]

InitDirs ==
    { [n \in {m \in StatusNames : f[m] # None} |-> Get(f[n])] :
        f \in { g \in [StatusNames -> {None} \cup {Some(c) : c \in InitContents}] :
                   \A n \in StatusNames : g[n] \in InitChoices[n] } }

Init ==
    /\ now = T0
    /\ dirExists \in BOOLEAN
    /\ statusDir \in InitDirs
    /\ dirExists = FALSE => statusDir = << >>
    /\ transcripts \in InitTranscripts
    /\ q = QIdle
    /\ dlog = {}
    /\ budget = [ticks |-> MaxTicks, hooks |-> MaxHookOps, writing |-> None]
    /\ pol = PolIdle
    /\ watch = WatchIdle
    /\ settings = SettingsIdle

Next ==
    \/ GetClaudeStatus
    \/ GetAllClaudeStatuses
    \/ ListSessions
    \/ DeleteSession
    \/ DeleteRemove
    \/ DeleteNames
    \/ ListStatusDir
    \/ ScanStep
    \/ RemoveStale
    \/ PathStep
    \/ JScanStep
    \/ HookMkdir
    \/ HookDate
    \/ HookOpen
    \/ HookWrite
    \/ HookRemove
    \/ Tick

Spec == Init /\ [][Next]_vars

-----------------------------------------------------------------------------
(* The staleness policy on its own: lines 395-399 of read_all_status_files *)
(* applied to a status drawn from every state, tool and age of interest.   *)

ToolNames ==
    {TodoWrite, ExitPlanMode, EnterPlanMode, ReadTool, WriteTool, EditTool,
     GlobTool, GrepTool, NotebookEdit, BashTool, KillShell, WebFetch, WebSearch,
     TaskTool, TaskOutput, PlaywrightClick, OpenBrowser, McpBrowser,
     McpPlaywrightLower, McpGithub, MCPSearch, McpMixedCase, ReadLower,
     TaskList, Skill, EmptyName}

PolStates ==
    {"working", "waiting_for_approval", "waiting_for_input", "idle",
     "unknown", "paused", "Working", ""}

PolTools == {None} \cup {Some(t) : t \in ToolNames}

PolAges ==
    {0, 9, 10, 11, 29, 30, 31, 59, 60, 61, 100, 119, 120, 121, 130,
     179, 180, 181, 590, 599, 600, 601, 610}

InitPolicy ==
    /\ now = T0
    /\ dirExists = FALSE
    /\ statusDir = << >>
    /\ transcripts = << >>
    /\ q = QIdle
    /\ dlog = {}
    /\ budget = [ticks |-> 0, hooks |-> 0, writing |-> None]
    /\ watch = WatchIdle
    /\ settings = SettingsIdle
    /\ pol \in { [PolIdle EXCEPT !.state = st, !.tool = tool, !.timestamp = ts,
                                 !.current = T0 + age] :
                    st \in PolStates, tool \in PolTools, ts \in {0, T0},
                    age \in PolAges }

ApplyPolicy ==
    /\ ~pol.applied
    /\ LET stale_threshold == get_stale_threshold_for_state(pol.state, pol.tool) IN
        pol' = [pol EXCEPT !.applied = TRUE,
                           !.threshold = stale_threshold,
                           !.stale = is_stale(pol.timestamp, pol.current, stale_threshold)]
    /\ UNCHANGED <<now, dirExists, statusDir, transcripts, q, dlog, budget, watch, settings>>

NextPolicy == ApplyPolicy

SpecPolicy == InitPolicy /\ [][NextPolicy]_vars

-----------------------------------------------------------------------------
(* The change watcher: start_claude_watching (claude_watcher.rs) and        *)
(* start_watching_claude_status (commands.rs).  Both hand a channel to a    *)
(* notify_debouncer_mini debouncer, register a non-recursive watch of the   *)
(* status directory and spawn a listener thread that emits                  *)
(* "claude-status-changed".  The debouncer is the crate's: it keeps one     *)
(* entry per changed path with the times of its first and latest raw event, *)
(* and at its deadline sends one batch holding an Any event for every path  *)
(* quiet for the timeout and an AnyContinuous event for every path first    *)
(* changed a timeout ago and still changing.                                *)

\* Duration::from_millis(100) and Duration::from_millis(200)
DEBOUNCE_WATCHER_MS == 100
DEBOUNCE_COMMAND_MS == 200

\* How far one step of the clock goes, in milliseconds.
ClockStep == 50
\* The clock stops here once nothing is pending.
MaxTime == 200
\* How many changes the hooks make to the directory.
MaxFsEvents == 2

\* The files the hooks change.
WatchPaths == {"a.json", "b.json"}

\* The steps of start that can fail.
StartFailures == {"none", "create_dir", "debouncer", "watch"}

start_watching_IgnoreWatchError(w, timeout, fail) ==
    IF fail \in {"create_dir", "debouncer"}
    THEN [w EXCEPT !.result = "Err", !.fail = fail, !.failed = @ + 1]
    ELSE [w EXCEPT !.result = "Ok", !.fail = fail, !.managed = TRUE,
                   !.listener = TRUE,
                   !.state = IF fail = "none" THEN "Watching" ELSE "Stopped",
                   !.timeout = timeout]

\* The body of either start function after the directory test: each `?`
\* returns the error before app.manage and thread::spawn are reached, and
\* nothing of the failed call is kept.
start_watching(w, timeout, fail) ==
    IF fail # "none"
    THEN [w EXCEPT !.result = "Err", !.fail = fail, !.failed = @ + 1]
    ELSE [w EXCEPT !.result = "Ok", !.fail = fail, !.managed = TRUE,
                   !.listener = TRUE, !.state = "Watching", !.timeout = timeout]

\* The debouncer on a raw event for `path` at time w.t.
add_event(w, path) ==
    [w EXCEPT
        !.deadline = IF @ = None THEN Some(w.t + w.timeout) ELSE @,
        !.event_map =
            IF \E e \in @ : e.path = path
            THEN { IF e.path = path THEN [e EXCEPT !.update = w.t] ELSE e : e \in @ }
            ELSE @ \cup {[path |-> path, insert |-> w.t, update |-> w.t]}]

\* The events the debouncer sends at time t, and the entries it keeps.
ExpiredEvents(w) ==
    { [path |-> e.path, kind |-> "Any"] :
        e \in { x \in w.event_map : w.t - x.update >= w.timeout } }
    \cup
    { [path |-> e.path, kind |-> "AnyContinuous"] :
        e \in { x \in w.event_map : /\ w.t - x.update < w.timeout
                                     /\ w.t - x.insert >= w.timeout } }

KeptEvents(w) == { e \in w.event_map : w.t - e.update < w.timeout }

has_changes_OnlyContinuous(result) ==
    result.ok /\ \E e \in result.events : e.kind = "AnyContinuous"

\* events.iter().any(|e| matches!(e.kind, DebouncedEventKind::Any)) of an
\* Ok batch; an Err result is printed.
has_changes(result) ==
    result.ok /\ \E e \in result.events : e.kind = "Any"

\* The debouncer of the other start function, at the time of the clock.
OtherAt(w) == [w.other EXCEPT !.t = w.t]

\* The earliest deadline of the debouncers, None when neither has one.
NextDeadline(w) ==
    IF w.deadline = None THEN w.other.deadline
    ELSE IF w.other.deadline = None THEN w.deadline
    ELSE IF Get(w.other.deadline) < Get(w.deadline) THEN w.other.deadline
    ELSE w.deadline

\* How many failed starts may be followed by another call of start.
MaxFailedStarts == 1

\* A call of a start function while no start has succeeded in the process:
\* the first call, or one made after a call that failed.
StartWatch(timeout) ==
    /\ ~watch.managed
    /\ watch.failed <= MaxFailedStarts
    /\ \E fail \in StartFailures :
        /\ fail = "create_dir" => ~dirExists
        /\ watch' = start_watching(watch, timeout, fail)
        /\ dirExists' = IF fail = "create_dir" THEN dirExists ELSE TRUE
    /\ UNCHANGED <<now, statusDir, transcripts, q, dlog, budget, pol, settings>>

StartClaudeWatching == StartWatch(DEBOUNCE_WATCHER_MS)

StartWatchingClaudeStatus == StartWatch(DEBOUNCE_COMMAND_MS)

\* A hook writes or removes a direct child of the status directory.
DirChange ==
    /\ watch.fs < MaxFsEvents
    /\ dirExists
    /\ \E path \in WatchPaths :
        watch' =
            IF watch.state = "Watching"
            THEN [add_event(watch, path) EXCEPT
                     !.fs = @ + 1,
                     !.first = IF @ = None THEN Some(watch.t) ELSE @,
                     !.last = Some(watch.t),
                     !.unnotified = TRUE,
                     !.other = IF @.state = "Watching"
                               THEN [add_event(OtherAt(watch), path) EXCEPT !.t = 0]
                               ELSE @]
            ELSE [watch EXCEPT !.fs = @ + 1]
    /\ UNCHANGED <<now, dirExists, statusDir, transcripts, q, dlog, budget, pol, settings>>

\* The watcher backend reports an error; the debouncer forwards it.
WatchError ==
    /\ watch.state = "Watching"
    /\ watch.errors < 1
    /\ watch' = [watch EXCEPT !.errors = @ + 1,
                              !.chan = Append(@, [ok |-> FALSE, events |-> {}])]
    /\ UNCHANGED <<now, dirExists, statusDir, transcripts, q, dlog, budget, pol, settings>>

\* The debouncer's thread at its deadline.
DebounceFire ==
    /\ watch.state = "Watching"
    /\ watch.deadline # None
    /\ watch.t >= Get(watch.deadline)
    /\ LET events == ExpiredEvents(watch)
           kept == KeptEvents(watch)
       IN  \E d \in IF kept = {} THEN {None}
                    ELSE { Some(e.update + watch.timeout) : e \in kept } :
            watch' = [watch EXCEPT
                         !.event_map = kept,
                         !.deadline = d,
                         !.chan = IF events = {} THEN @
                                  ELSE Append(@, [ok |-> TRUE, events |-> events])]
    /\ UNCHANGED <<now, dirExists, statusDir, transcripts, q, dlog, budget, pol, settings>>

\* One turn of the listener thread's `while let Ok(result) = rx.recv()`.
Listen ==
    /\ watch.listener
    /\ watch.chan # << >>
    /\ watch' = [watch EXCEPT
                    !.chan = Tail(@),
                    !.emitted = IF has_changes(Head(watch.chan)) THEN @ + 1 ELSE @,
                    !.unnotified = IF has_changes(Head(watch.chan)) THEN FALSE ELSE @]
    /\ UNCHANGED <<now, dirExists, statusDir, transcripts, q, dlog, budget, pol, settings>>

\* Time passes, up to the debouncer's deadline when there is one.
WAdvance ==
    /\ watch.result # "none"
    /\ LET deadline == NextDeadline(watch) IN
        /\ \/ deadline # None /\ watch.t < Get(deadline)
           \/ deadline = None /\ watch.t < MaxTime
        /\ watch' = [watch EXCEPT
                        !.t = IF deadline # None /\ Get(deadline) < @ + ClockStep
                              THEN Get(deadline) ELSE @ + ClockStep]
    /\ UNCHANGED <<now, dirExists, statusDir, transcripts, q, dlog, budget, pol, settings>>

InitWatch ==
    /\ now = T0
    /\ dirExists \in BOOLEAN
    /\ statusDir = << >>
    /\ transcripts = << >>
    /\ q = QIdle
    /\ dlog = {}
    /\ budget = [ticks |-> 0, hooks |-> 0, writing |-> None]
    /\ pol = PolIdle
    /\ watch = WatchIdle
    /\ settings = SettingsIdle

NextWatch ==
    \/ StartClaudeWatching
    \/ StartWatchingClaudeStatus
    \/ DirChange
    \/ WatchError
    \/ DebounceFire
    \/ Listen
    \/ WAdvance

\* The debouncer's thread and the listener thread run, and time passes.
SpecWatch ==
    /\ InitWatch
    /\ [][NextWatch]_vars
    /\ WF_vars(DebounceFire)
    /\ WF_vars(Listen)
    /\ WF_vars(WAdvance)

\* How many times start is called again after it succeeded.
MaxRestarts == 2

\* The steps of a repeated start that can fail; the directory exists since
\* the first start.
RestartFailures == {"none", "debouncer", "watch"}

\* The body of a start function called after a start has succeeded.  When
\* the state type of this function is already managed, app.manage leaves the
\* managed state as it is and the debouncer handed to it is dropped inside
\* the call: its watch is removed and its thread is told to stop, so it
\* sends nothing, and the thread spawned after that listens on a channel
\* nothing is sent to.  When only the state of the other start function is
\* managed, this one's state is of a type not managed yet: its debouncer is
\* kept and its listener receives what it sends.
start_again(w, timeout, fail) ==
    IF fail # "none"
    THEN [w EXCEPT !.refused = @ + 1]
    ELSE IF timeout = w.timeout \/ w.other.state = "Watching"
    THEN [w EXCEPT !.again = @ + 1, !.spare = @ + 1,
                   !.before = IF w.again = 0 THEN w.fs ELSE @]
    ELSE [w EXCEPT !.again = @ + 1,
                   !.before = IF w.again = 0 THEN w.fs ELSE @,
                   !.other = [OtherIdle EXCEPT !.state = "Watching",
                                               !.listener = TRUE,
                                               !.timeout = timeout]]

StartAgain(timeout) ==
    /\ watch.result = "Ok"
    /\ watch.again + watch.refused < MaxRestarts
    /\ dirExists
    /\ \E fail \in RestartFailures : watch' = start_again(watch, timeout, fail)
    /\ UNCHANGED <<now, dirExists, statusDir, transcripts, q, dlog, budget, pol, settings>>

RestartClaudeWatching == StartAgain(DEBOUNCE_WATCHER_MS)

RestartWatchingClaudeStatus == StartAgain(DEBOUNCE_COMMAND_MS)

\* `while let Ok(result) = rx.recv()` of a thread spawned by a repeated
\* start: the sender went with the dropped debouncer, recv() returns Err and
\* the thread ends.
SpareListenerExit ==
    /\ watch.spare > 0
    /\ watch' = [watch EXCEPT !.spare = @ - 1]
    /\ UNCHANGED <<now, dirExists, statusDir, transcripts, q, dlog, budget, pol, settings>>

\* The thread of the other start function's debouncer at its deadline.
OtherDebounceFire ==
    /\ watch.other.state = "Watching"
    /\ watch.other.deadline # None
    /\ watch.t >= Get(watch.other.deadline)
    /\ LET events == ExpiredEvents(OtherAt(watch))
           kept == KeptEvents(OtherAt(watch))
       IN  \E d \in IF kept = {} THEN {None}
                    ELSE { Some(e.update + watch.other.timeout) : e \in kept } :
            watch' = [watch EXCEPT
                         !.other.event_map = kept,
                         !.other.deadline = d,
                         !.other.chan = IF events = {} THEN @
                                        ELSE Append(@, [ok |-> TRUE, events |-> events])]
    /\ UNCHANGED <<now, dirExists, statusDir, transcripts, q, dlog, budget, pol, settings>>

\* One turn of the listener thread of the other start function.
OtherListen ==
    /\ watch.other.listener
    /\ watch.other.chan # << >>
    /\ watch' = [watch EXCEPT
                    !.other.chan = Tail(@),
                    !.emitted = IF has_changes(Head(watch.other.chan)) THEN @ + 1 ELSE @,
                    !.unnotified = IF has_changes(Head(watch.other.chan)) THEN FALSE ELSE @]
    /\ UNCHANGED <<now, dirExists, statusDir, transcripts, q, dlog, budget, pol, settings>>

NextRestart ==
    \/ NextWatch
    \/ RestartClaudeWatching
    \/ RestartWatchingClaudeStatus
    \/ SpareListenerExit
    \/ OtherDebounceFire
    \/ OtherListen

\* The watcher with start called any number of times.
SpecRestart == InitWatch /\ [][NextRestart]_vars

-----------------------------------------------------------------------------
(* The hook installers: configure_claude_hooks / remove_claude_hooks of     *)
(* claude_watcher.rs and apply_hooks / remove_hooks of claude_status.rs.    *)
(* A JSON value is a record tagged by t: "null", "str", "arr" (items) or    *)
(* "obj" (fields, a function from keys).  A hook entry is one element of a  *)
(* category's array: [matcher, command], its command a tuple of pieces of   *)
(* text.  The settings file is None when absent, else [valid, doc]: doc is  *)
(* what the text holds and valid whether serde_json parses it; a file that  *)
(* cannot be read as text has the doc Unreadable.                           *)

\* How many installer calls a behaviour makes.
MaxInstallerCalls == 2

JObj(fields) == [t |-> "obj", fields |-> fields]
Panicked == [t |-> "panic"]
\* What fs::read_to_string cannot return: bytes that are not UTF-8, or a
\* directory in the place of the file.
Unreadable == [t |-> "bytes"]

\* Value::get / get_mut with a string key: None unless an object with the key.
JGet(v, key) ==
    IF v.t = "obj" /\ key \in DOMAIN v.fields THEN Some(v.fields[key]) ELSE None

Put(f, key, val) == [k \in DOMAIN f \cup {key} |-> IF k = key THEN val ELSE f[k]]

Drop(f, key) == [k \in DOMAIN f \ {key} |-> f[k]]

\* value[key] = val (IndexMut): null becomes an object, an object gets the
\* key, any other value panics.
IndexSet(v, key, val) ==
    IF v.t = "null" THEN JObj(Put(<< >>, key, val))
    ELSE IF v.t = "obj" THEN JObj(Put(v.fields, key, val))
    ELSE Panicked

\* ".woodeye-status"
Marker == <<".woodeye-status">>

HookEntry(matcher, command) == [matcher |-> matcher, command |-> command]

\* h.to_string().contains(".woodeye-status")
IsMarked(h) ==
    Contains((IF h.matcher = None THEN << >> ELSE <<Get(h.matcher)>>) \o h.command,
             Marker)

\* status_dir.display(): dirs::home_dir() joined with STATUS_DIR_NAME; the
\* home directory is /home/u.
StatusDir == <<"/home/u/", ".woodeye-status">>

\* The commands below are tuples of pieces of text.  Each piece is written
\* as serde_json serializes it inside the string: a double quote of the
\* command is \" and a backslash is \\, so that the lengths of the pieces
\* add up to the bytes the command takes in settings.json.

\* "\"last_tool\":\"'\"$CLAUDE_TOOL_NAME\"'\"," and its like with
\* waiting_reason: the field of the echoed record that carries the tool.
ToolField(field) ==
    IF field = None THEN << >>
    ELSE <<"\\\"", Get(field), "\\\":\\\"'\\\"$CLAUDE_TOOL_NAME\\\"'\\\",">>

\* format!("mkdir -p {} && echo '{{..}}' > {}/$(echo .. | md5 | cut -c1-16).json",
\* status_dir.display(), status_dir.display()) of configure_claude_hooks,
\* for the state written and the field that carries the tool name, if any.
WriteCmd(state, field) ==
    <<"mkdir -p ">>
    \o StatusDir
    \o <<" && echo",
         " '{\\\"project_path\\\":\\\"'\\\"$CLAUDE_PROJECT_DIR\\\"'\\\",\\\"state\\\":\\\"",
         state, "\\\",">>
    \o ToolField(field)
    \o <<"\\\"timestamp\\\":'$(date +%s)'}' > ">>
    \o StatusDir
    \o <<"/$(echo \\\"$CLAUDE_PROJECT_DIR\\\" | md5 | cut -c1-16).json">>

\* format!("rm -f {}/$(echo \"$CLAUDE_PROJECT_DIR\" | md5 | cut -c1-16).json", ..)
RmCmd ==
    <<"rm -f ">>
    \o StatusDir
    \o <<"/$(echo \\\"$CLAUDE_PROJECT_DIR\\\" | md5 | cut -c1-16).json">>

\* base_cmd(state) of generate_woodeye_hooks, after .replace("{}", "$sid").
base_cmd(state) ==
    <<"input=$(cat); sid=$(echo \\\"$input\\\" | jq -r '.session_id'); [",
      " -n \\\"$CLAUDE_PROJECT_DIR\\\" ] && [ -n \\\"$sid\\\" ] && mkdir -p ">>
    \o StatusDir
    \o <<" && echo",
         " \\\"{\\\\\\\"project_path\\\\\\\":\\\\\\\"$CLAUDE_PROJECT_DIR\\\\\\\",",
         "\\\\\\\"session_id\\\\\\\":\\\\\\\"$sid\\\\\\\",\\\\\\\"state\\\\\\\":\\\\\\\"",
         state, "\\\\\\\",\\\\\\\"timestamp\\\\\\\":$(date +%s)}\\\" > ">>
    \o StatusDir
    \o <<"/$sid.json">>

\* cleanup_cmd of generate_woodeye_hooks
cleanup_cmd ==
    <<"input=$(cat); sid=$(echo \\\"$input\\\" | jq -r '.session_id'); if",
      " [ -n \\\"$sid\\\" ]; then rm -f ">>
    \o StatusDir
    \o <<"/\\\"$sid\\\".json; nf=\\\"">>
    \o StatusDir
    \o <<"/names.json\\\"; if [ -f \\\"$nf\\\" ]; then jq --arg s \\\"$sid\\\"",
         " 'del(.[$s])' \\\"$nf\\\" > \\\"$nf.tmp\\\" && mv \\\"$nf.tmp\\\" \\\"$nf\\\"; fi;",
         " fi">>

\* name_cmd of generate_woodeye_hooks
name_cmd ==
    <<"input=$(cat); sid=$(echo \\\"$input\\\" | jq -r '.session_id');",
      " prompt=$(echo \\\"$input\\\" | jq -r '.prompt // empty'); nf=\\\"">>
    \o StatusDir
    \o <<"/names.json\\\"; if [ -n \\\"$sid\\\" ] && [ -n \\\"$prompt\\\" ]; then if",
         " [ -f \\\"$nf\\\" ]; then ex=$(jq -r --arg s \\\"$sid\\\" '.[$s] //",
         " empty' \\\"$nf\\\" 2>/dev/null); else ex=\\\"\\\"; fi; if [ -z \\\"$ex\\\" ];",
         " then name=$(printf '%s' \\\"$prompt\\\" | head -c 50 | sed",
         " 's/[[:space:]][^[:space:]]*$//'); if [ -f \\\"$nf\\\" ]; then jq",
         " --arg s \\\"$sid\\\" --arg n \\\"$name\\\" '. + {($s): $n}' \\\"$nf\\\" >",
         " \\\"$nf.tmp\\\" && mv \\\"$nf.tmp\\\" \\\"$nf\\\"; else echo",
         " \\\"{\\\\\\\"$sid\\\\\\\":\\\\\\\"$name\\\\\\\"}\\\" > \\\"$nf\\\"; fi; fi; fi">>

\* woodeye_hooks["hooks"] of configure_claude_hooks
woodeye_hooks ==
    JObj([c \in {"PreToolUse", "PostToolUse", "PermissionRequest", "Notification",
                 "Stop", "SessionStart", "SessionEnd"} |->
          JArr(<< IF c \in {"PreToolUse", "PostToolUse"}
                  THEN HookEntry(Some("*"), WriteCmd("working", Some("last_tool")))
                  ELSE IF c = "PermissionRequest"
                  THEN HookEntry(None, WriteCmd("waiting_for_approval",
                                                Some("waiting_reason")))
                  ELSE IF c = "Notification"
                  THEN HookEntry(None, WriteCmd("waiting_for_input", None))
                  ELSE IF c = "SessionStart"
                  THEN HookEntry(None, WriteCmd("working", None))
                  ELSE HookEntry(None, RmCmd) >>)])

\* generate_woodeye_hooks() of claude_status.rs
generate_woodeye_hooks ==
    JObj([c \in {"PermissionRequest", "PostToolUse", "PreToolUse", "SessionEnd",
                 "SessionStart", "Stop", "UserPromptSubmit", "Notification"} |->
          JArr(<< IF c \in {"PreToolUse", "PostToolUse"}
                  THEN HookEntry(Some("*"), base_cmd("working"))
                  ELSE IF c = "PermissionRequest"
                  THEN HookEntry(None, base_cmd("waiting_for_approval"))
                  ELSE IF c = "Notification"
                  THEN HookEntry(Some("permission_prompt"),
                                 base_cmd("waiting_for_approval"))
                  ELSE IF c \in {"SessionStart", "Stop"}
                  THEN HookEntry(None, base_cmd("idle"))
                  ELSE IF c = "SessionEnd"
                  THEN HookEntry(None, cleanup_cmd)
                  ELSE HookEntry(None, name_cmd) >>)])

\* The hook types of woodeye_hooks in the order its map yields them.
WoodeyeHookTypes ==
    <<"Notification", "PermissionRequest", "PostToolUse", "PreToolUse",
      "SessionEnd", "SessionStart", "Stop">>

\* The merge loop of configure_claude_hooks over the hook types still to do.
RECURSIVE MergeHooks(_, _)
MergeHooks(existing_hooks, types) ==
    IF types = << >> \/ existing_hooks.t = "panic" THEN existing_hooks
    ELSE LET hook_type == Head(types)
             hook_list == woodeye_hooks.fields[hook_type]
             existing_list == JGet(existing_hooks, hook_type)
         IN  IF existing_list # None
             THEN LET l == Get(existing_list) IN
                  IF l.t = "arr"
                  THEN LET hook == hook_list.items[1]
                           arr == IF IsMarked(hook)
                                     /\ ~\E i \in 1..Len(l.items) : IsMarked(l.items[i])
                                  THEN Append(l.items, hook) ELSE l.items
                       IN  MergeHooks(JObj(Put(existing_hooks.fields, hook_type, JArr(arr))),
                                      Tail(types))
                  ELSE MergeHooks(existing_hooks, Tail(types))
             ELSE MergeHooks(IndexSet(existing_hooks, hook_type, hook_list), Tail(types))

\* What a call leaves: how it ended and the settings file.
Outcome(result, file) == [result |-> result, file |-> file]

Written(doc) == Some([valid |-> TRUE, doc |-> doc])

\* fs::read_to_string(&settings_path) fails.
ReadFails(file) == file # None /\ Get(file).doc = Unreadable

\* configure_claude_hooks on the settings file `file`: a file that cannot be
\* read is an error, one that does not parse counts as {}.
configure_claude_hooks(file) ==
    IF ReadFails(file) THEN Outcome("Err", file) ELSE
    LET settings_doc == IF file = None THEN JObj(<< >>)
                    ELSE IF ~Get(file).valid THEN JObj(<< >>)
                    ELSE Get(file).doc
        existing_hooks == JGet(settings_doc, "hooks")
        merged == IF existing_hooks # None
                  THEN LET h == MergeHooks(Get(existing_hooks),
                                           WoodeyeHookTypes)
                       IN  IF h.t = "panic" THEN Panicked
                           ELSE JObj(Put(settings_doc.fields, "hooks", h))
                  ELSE IndexSet(settings_doc, "hooks", woodeye_hooks)
    IN  IF merged.t = "panic" THEN Outcome("Panic", file)
        ELSE Outcome("Ok", Written(merged))

\* arr.retain(|h| !h.to_string().contains(".woodeye-status")) in every
\* category that is an array.
RetainUnmarked(hooks) ==
    IF hooks.t # "obj" THEN hooks
    ELSE JObj([c \in DOMAIN hooks.fields |->
                 IF hooks.fields[c].t = "arr"
                 THEN JArr(SelectSeq(hooks.fields[c].items, LAMBDA h : ~IsMarked(h)))
                 ELSE hooks.fields[c]])

\* remove_claude_hooks on the settings file `file`.
remove_claude_hooks(file) ==
    IF file = None THEN Outcome("Ok", file)
    ELSE IF ~Get(file).valid THEN Outcome("Err", file)
    ELSE LET settings_doc == Get(file).doc
             hooks == JGet(settings_doc, "hooks")
         IN  IF hooks = None THEN Outcome("Ok", Written(settings_doc))
             ELSE Outcome("Ok", Written(JObj(Put(settings_doc.fields, "hooks",
                                                  RetainUnmarked(Get(hooks))))))

\* apply_hooks on the settings file `file`.
apply_hooks(file) ==
    IF file # None /\ ~Get(file).valid THEN Outcome("Err", file)
    ELSE LET settings_doc == IF file = None THEN JObj(<< >>) ELSE Get(file).doc IN
         IF settings_doc.t = "obj"
         THEN Outcome("Ok", Written(JObj(Put(settings_doc.fields, "hooks",
                                              generate_woodeye_hooks))))
         ELSE Outcome("Ok", Written(settings_doc))

\* remove_hooks on the settings file `file`; the backup of the hooks goes to
\* hooks_backup.json in the status directory.
remove_hooks(file) ==
    IF file = None THEN Outcome("Ok", file)
    ELSE IF ~Get(file).valid THEN Outcome("Err", file)
    ELSE LET settings_doc == Get(file).doc IN
         IF settings_doc.t = "obj"
         THEN Outcome("Ok", Written(JObj(Drop(settings_doc.fields, "hooks"))))
         ELSE Outcome("Ok", Written(settings_doc))

\* Whether remove_hooks writes the backup.
WritesBackup(file) ==
    file # None /\ Get(file).valid /\ JGet(Get(file).doc, "hooks") # None

\* hooks_backup.json: serde_json::to_string_pretty(hooks).
Backup(hooks) == Some([hooks |-> hooks])

\* The settings files found at start.
U_lint == HookEntry(Some("Bash"), <<"npm run lint">>)
U_notify == HookEntry(None, <<"notify-send done">>)
D_empty == JObj(<< >>)
D_model == JObj([k \in {"model"} |-> JStr("opus")])
D_userHooks ==
    JObj([k \in {"model", "hooks"} |->
          IF k = "model" THEN JStr("opus")
          ELSE JObj([c \in {"PreToolUse", "SubagentStop"} |->
                     IF c = "PreToolUse" THEN JArr(<<U_lint>>)
                     ELSE JArr(<<U_notify>>)])])
D_twoInStop ==
    JObj([k \in {"hooks"} |-> JObj([c \in {"Stop"} |-> JArr(<<U_notify, U_lint>>)])])
D_hooksNull == JObj([k \in {"hooks"} |-> JNull])
D_hooksArray == JObj([k \in {"hooks"} |-> JArr(<< >>)])
D_categoryString ==
    JObj([k \in {"hooks"} |-> JObj([c \in {"PreToolUse"} |-> JStr("off")])])
D_topArray == JArr(<< >>)

InitSettingsFiles ==
    {None}
    \cup { Written(d) : d \in {D_empty, D_model, D_userHooks, D_twoInStop,
                               D_hooksNull, D_hooksArray, D_categoryString,
                               D_topArray} }
    \cup { Some([valid |-> FALSE, doc |-> D_userHooks]),
           Some([valid |-> FALSE, doc |-> Unreadable]) }

\* The installer `op` run to its end on the settings file `file`.
Installer(op, file) ==
    IF op = "configure_claude_hooks" THEN configure_claude_hooks(file)
    ELSE IF op = "remove_claude_hooks" THEN remove_claude_hooks(file)
    ELSE IF op = "apply_hooks" THEN apply_hooks(file)
    ELSE remove_hooks(file)

\* Whether the call goes on to fs::write(&settings_path, ..) after it read
\* `file`: not after an error or a panic, and an uninstall returns Ok at once
\* when there is no settings file.
WritesSettings(op, file) ==
    /\ Installer(op, file).result = "Ok"
    /\ ~(op \in {"remove_claude_hooks", "remove_hooks"} /\ file = None)

\* fs::write(path, text) is File::create followed by write_all: the file is
\* opened with O_TRUNC, which leaves it empty, and the text is then written
\* from offset 0.  The empty settings file:
Truncated == Some([valid |-> FALSE, doc |-> [t |-> "empty"]])

\* The sum of the values of a function with a finite domain.
RECURSIVE SumOf(_)
SumOf(f) ==
    IF DOMAIN f = {} THEN 0
    ELSE LET k == CHOOSE j \in DOMAIN f : TRUE IN
         f[k] + SumOf([j \in (DOMAIN f) \ {k} |-> f[j]])

\* A hook entry as the JSON object it stands for:
\* {"hooks": [{"command": .., "type": "command"}], "matcher": ..}, the matcher
\* when there is one.  The command is kept by the number of bytes its pieces
\* take in the file.
EntryJson(h) ==
    JObj([k \in (IF h.matcher = None THEN {"hooks"} ELSE {"hooks", "matcher"}) |->
            IF k = "matcher" THEN JStr(Get(h.matcher))
            ELSE JArr(<<JObj([j \in {"command", "type"} |->
                               IF j = "type" THEN JStr("command")
                               ELSE [t |-> "text",
                                     len |-> SumOf([i \in 1..Len(h.command) |->
                                                       Len(h.command[i])])]])>>)])

\* The number of bytes serde_json::to_string_pretty gives a value that stands
\* `depth` levels deep: two spaces of indentation per level, one member or
\* item per line, ": " after a key, "," between members, and {} or [] for
\* an empty object or array.  The pieces of a command are held as they are
\* serialized, and no other string of the model needs an escape.
RECURSIVE PrettyLen(_, _)
PrettyLen(v, depth) ==
    IF "t" \notin DOMAIN v THEN PrettyLen(EntryJson(v), depth)
    ELSE IF v.t = "null" THEN 4
    ELSE IF v.t = "str" THEN Len(v.v) + 2
    ELSE IF v.t = "text" THEN v.len + 2
    ELSE IF v.t = "arr"
    THEN IF v.items = << >> THEN 2
         ELSE 2 + SumOf([i \in 1..Len(v.items) |->
                            2 * (depth + 1) + PrettyLen(v.items[i], depth + 1) + 1])
                + (Len(v.items) - 1) + 2 * depth + 1
    ELSE IF DOMAIN v.fields = {} THEN 2
         ELSE 2 + SumOf([k \in DOMAIN v.fields |->
                            2 * (depth + 1) + Len(k) + 4
                                + PrettyLen(v.fields[k], depth + 1) + 1])
                + (Cardinality(DOMAIN v.fields) - 1) + 2 * depth + 1

\* The length of the settings file after a truncation: nothing, what was
\* left by two writes that overlapped, or the text of the document written.
FileLen(file) ==
    IF Get(file).doc.t = "empty" THEN 0
    ELSE IF Get(file).doc.t = "torn" THEN Get(file).doc.len
    ELSE PrettyLen(Get(file).doc, 0)

\* write_all of the text of `written` from offset 0 into the settings file,
\* which holds `file` by now.  The file is empty unless another call wrote
\* after this call's truncation; then the bytes beyond the end of the new
\* text stay, and what the file holds is the new text followed by the tail
\* of the longer one, which is not JSON.
Overwrite(file, written) ==
    IF FileLen(file) <= FileLen(written) THEN written
    ELSE Some([valid |-> FALSE, doc |-> [t |-> "torn", len |-> FileLen(file)]])

\* How many installer calls have begun.
CallsBegun == Len(settings.hist) + Len(settings.run)

\* The sequence without its i-th element.
Without(seq, i) == SubSeq(seq, 1, i - 1) \o SubSeq(seq, i + 1, Len(seq))

\* An installer call up to the read of the settings file: the exists test,
\* fs::read_to_string and the parse.  The calls run on the blocking thread
\* pool, the file is not locked, and another call may run before this one
\* writes; settings.run holds the calls under way, [op, pc, image, began] (pc
\* is "backup", "backing", "write" or "writing": what the call does next),
\* with the file as the call read it and the number of calls that had
\* returned when it began.  A call that will not write returns here.
InstallerCall(op) ==
    /\ CallsBegun < MaxInstallerCalls
    /\ settings' =
        IF WritesSettings(op, settings.file)
        THEN [settings EXCEPT !.run =
                 Append(@, [op |-> op,
                            pc |-> IF op = "remove_hooks" /\ WritesBackup(settings.file)
                                   THEN "backup" ELSE "write",
                            image |-> settings.file,
                            began |-> Len(settings.hist)])]
        ELSE [settings EXCEPT !.hist =
                 Append(@, [op |-> op,
                            result |-> Installer(op, settings.file).result,
                            before |-> settings.file, after |-> settings.file,
                            began |-> Len(settings.hist)])]

\* configure_claude_hooks creates the status directory before it reads the
\* settings file.
ConfigureClaudeHooks ==
    /\ InstallerCall("configure_claude_hooks")
    /\ dirExists' = TRUE
    /\ UNCHANGED <<now, statusDir, transcripts, q, dlog, budget, pol, watch>>

RemoveClaudeHooks ==
    /\ InstallerCall("remove_claude_hooks")
    /\ UNCHANGED <<now, dirExists, statusDir, transcripts, q, dlog, budget, pol, watch>>

ApplyHooks ==
    /\ InstallerCall("apply_hooks")
    /\ UNCHANGED <<now, dirExists, statusDir, transcripts, q, dlog, budget, pol, watch>>

RemoveHooks ==
    /\ InstallerCall("remove_hooks")
    /\ UNCHANGED <<now, dirExists, statusDir, transcripts, q, dlog, budget, pol, watch>>

\* The length of hooks_backup.json: an empty file, what two writes that
\* overlapped left, or the text of the hooks written.
BackupLen(content) ==
    IF content = None THEN 0
    ELSE IF "torn" \in DOMAIN Get(content) THEN Get(content).torn
    ELSE PrettyLen(Get(content).hooks, 0)

\* remove_hooks: create_dir_all of the status directory, and File::create of
\* fs::write(&backup_path, ..), which leaves hooks_backup.json empty.
BackupHooks ==
    \E i \in 1..Len(settings.run) :
        /\ settings.run[i].pc = "backup"
        /\ settings' = [settings EXCEPT !.run[i].pc = "backing"]
        /\ dirExists' = TRUE
        /\ statusDir' = WriteFile(statusDir, F_backup, EmptyFile)
        /\ UNCHANGED <<now, transcripts, q, dlog, budget, pol, watch>>

\* write_all of fs::write(&backup_path, ..): the hooks the call read, put
\* from offset 0 into the file it opened; when another call has written a
\* longer text since, the tail of that text stays.
WriteBackup ==
    \E i \in 1..Len(settings.run) :
        /\ settings.run[i].pc = "backing"
        /\ settings' = [settings EXCEPT !.run[i].pc = "write"]
        /\ LET written == Backup(Get(JGet(Get(settings.run[i].image).doc, "hooks"))) IN
            statusDir' =
                WriteFile(statusDir, F_backup,
                          IF BackupLen(statusDir[F_backup]) <= BackupLen(written)
                          THEN written
                          ELSE Some([torn |-> BackupLen(statusDir[F_backup])]))
        /\ UNCHANGED <<now, dirExists, transcripts, q, dlog, budget, pol, watch>>

\* fs::write(&settings_path, ..) of a call under way, first half:
\* File::create opens the file and truncates it, whatever it holds by now.
TruncateSettings ==
    \E i \in 1..Len(settings.run) :
        /\ settings.run[i].pc = "write"
        /\ settings' = [settings EXCEPT !.file = Truncated,
                                        !.run[i].pc = "writing"]
        /\ UNCHANGED <<now, dirExists, statusDir, transcripts, q, dlog, budget, pol, watch>>

\* fs::write, second half: write_all puts what the call made of the file it
\* read into the file it opened, and the call returns.  `after` is what the
\* file holds when it returns.
WriteSettings ==
    \E i \in 1..Len(settings.run) :
        /\ settings.run[i].pc = "writing"
        /\ LET c == settings.run[i]
               out == Installer(c.op, c.image)
               file == Overwrite(settings.file, out.file)
           IN  settings' = [file |-> file,
                            run |-> Without(settings.run, i),
                            hist |-> Append(settings.hist,
                                            [op |-> c.op, result |-> out.result,
                                             before |-> c.image, after |-> file,
                                             began |-> c.began])]
        /\ UNCHANGED <<now, dirExists, statusDir, transcripts, q, dlog, budget, pol, watch>>

InitHooks ==
    /\ now = T0
    /\ dirExists \in BOOLEAN
    /\ statusDir = << >>
    /\ transcripts = << >>
    /\ q = QIdle
    /\ dlog = {}
    /\ budget = [ticks |-> 0, hooks |-> 0, writing |-> None]
    /\ pol = PolIdle
    /\ watch = WatchIdle
    /\ settings \in { [SettingsIdle EXCEPT !.file = f] : f \in InitSettingsFiles }

NextHooks ==
    \/ ConfigureClaudeHooks
    \/ RemoveClaudeHooks
    \/ ApplyHooks
    \/ RemoveHooks
    \/ BackupHooks
    \/ WriteBackup
    \/ TruncateSettings
    \/ WriteSettings

SpecHooks == InitHooks /\ [][NextHooks]_vars

-----------------------------------------------------------------------------
(* What the claims are stated with *)

\* The records of a sequence, as a set.
Range(seq) == { seq[i] : i \in 1..Len(seq) }

\* The staleness policy as the specification words it, for a status with
\* these fields seen at `current`.
StaleUnderPolicy(state, tool, timestamp, current) ==
    timestamp > 0 /\ (current - timestamp) > get_stale_threshold_for_state(state, tool)

\* A log entry of the store scan whose file was read and parsed as a status
\* file with a project path.
WellFormed(e) ==
    /\ extension(e.name) = "json"
    /\ e.read # None
    /\ ParseStatusFile(Get(e.read)) # None
    /\ Get(ParseStatusFile(Get(e.read))).project_path # << >>

Observed(e) == Get(ParseStatusFile(Get(e.read)))

ObservedStale(e, current) ==
    StaleUnderPolicy(Observed(e).state, Observed(e).last_tool,
                     Observed(e).timestamp, current)

\* A removed file that held a status record with a project path, fresh at
\* the moment of the removal.
HeldFresh(d) ==
    /\ d.held # None
    /\ ParseStatusFile(Get(d.held)) # None
    /\ LET st == Get(ParseStatusFile(Get(d.held))) IN
        /\ st.project_path # << >>
        /\ ~StaleUnderPolicy(st.state, st.last_tool, st.timestamp, d.at)

PendingStates == {"WaitingForApproval", "WaitingForInput", "Idle"}

-----------------------------------------------------------------------------
(* Claims *)

\* C1: for every path of a query, when the store's records match the path the
\* result is exactly those records and the transcript fallback does not run
\* for it; the fallback runs only when no store record matches, and a result
\* that came from the fallback holds transcript records only.
C1_OneSourcePerPath ==
    /\ \A i \in 1..Len(q.results) :
        LET r == q.results[i]
            matched == MatchingSessions(q.all_sessions, r.path)
        IN  /\ matched # << >> => r.active_sessions = matched /\ ~r.fallback
            /\ r.fallback => matched = << >>
            /\ r.fallback =>
                 \A s \in Range(r.active_sessions) :
                     /\ s \notin Range(q.all_sessions)
                     /\ \E t \in DOMAIN transcripts : transcripts[t].stem = s.session_id
            /\ (\E e \in q.jlog : e.path = r.path) => r.fallback
    /\ q.pc = "jscan" => MatchingSessions(q.all_sessions, q.paths[q.idx]) = << >>
    /\ \A e \in q.jlog : MatchingSessions(q.all_sessions, e.path) = << >>

\* C1 witness: a finished get_all_claude_statuses whose first path was answered
\* from the store although a fresh transcript of the same path exists, and
\* whose second path was answered from a transcript.
C1_Witness ==
    /\ q.pc = "done"
    /\ q.kind = "all"
    /\ Len(q.results) = 2
    /\ q.results[1].active_sessions # << >>
    /\ ~q.results[1].fallback
    /\ 1 \in DOMAIN transcripts
    /\ transcripts[1] = X_approval
    /\ q.results[2].fallback
    /\ q.results[2].active_sessions # << >>

\* C2 (as claimed): the active_sessions of every result are ordered by
\* timestamp, newest first.
C2_NewestFirst ==
    \A i \in 1..Len(q.results) :
        LET a == q.results[i].active_sessions IN
        \A j, k \in 1..Len(a) : j < k => a[j].timestamp >= a[k].timestamp

\* C3: read_all_status_files classifies a parsed status file as stale exactly
\* when its timestamp is positive and its age at the call's clock exceeds the
\* threshold of its state and tool; so never with timestamp 0, and not at an
\* age equal to the threshold.
C3_StaleDecision ==
    \A e \in q.slog :
        WellFormed(e) =>
            LET st == Observed(e)
                thr == get_stale_threshold_for_state(st.state, st.last_tool)
            IN  /\ e.decision \in {"stale", "fresh"}
                /\ e.decision = "stale" <=>
                       (st.timestamp > 0 /\ q.qnow - st.timestamp > thr)
                /\ st.timestamp = 0 => e.decision = "fresh"
                /\ q.qnow - st.timestamp = thr => e.decision = "fresh"

\* C3 witness: one scan that met a file whose age equals its threshold and a
\* file with timestamp 0 older than any threshold.
C3_Witness ==
    /\ \E e \in q.slog :
        /\ WellFormed(e)
        /\ Observed(e).timestamp > 0
        /\ q.qnow - Observed(e).timestamp =
               get_stale_threshold_for_state(Observed(e).state, Observed(e).last_tool)
        /\ e.decision = "fresh"
    /\ \E e \in q.slog :
        /\ WellFormed(e)
        /\ Observed(e).timestamp = 0
        /\ e.decision = "fresh"

\* The thresholds of C4, name by name.
RefToolThreshold(tool) ==
    IF tool = None THEN 60
    ELSE IF Get(tool) \in {TodoWrite, ExitPlanMode, EnterPlanMode} THEN 10
    ELSE IF Get(tool) \in {ReadTool, WriteTool, EditTool, GlobTool, GrepTool,
                           NotebookEdit, BashTool, KillShell} THEN 30
    ELSE IF Get(tool) \in {WebFetch, WebSearch} THEN 120
    ELSE IF Get(tool) \in {TaskTool, TaskOutput} THEN 180
    ELSE IF Get(tool) \in {PlaywrightClick, OpenBrowser, McpBrowser} THEN 180
    ELSE IF Get(tool) \in {McpPlaywrightLower, McpGithub, MCPSearch} THEN 120
    ELSE 60

\* C4: the threshold is 600 for the three waiting states whatever the tool,
\* and the tool's threshold for "working" and for every other state; a
\* working WebFetch record is fresh at age 100 and stale at age 130, an idle
\* record is fresh at 590 and stale at 610 with every tool.
C4_ThresholdTable ==
    pol.applied =>
        /\ pol.state \in {"waiting_for_approval", "waiting_for_input", "idle"}
               => pol.threshold = 600
        /\ pol.state \notin {"waiting_for_approval", "waiting_for_input", "idle"}
               => pol.threshold = RefToolThreshold(pol.tool)
        /\ (pol.state = "working" /\ pol.tool = Some(WebFetch) /\ pol.timestamp > 0)
               => /\ pol.current - pol.timestamp = 100 => ~pol.stale
                  /\ pol.current - pol.timestamp = 130 => pol.stale
        /\ (pol.state = "idle" /\ pol.timestamp > 0)
               => /\ pol.current - pol.timestamp = 590 => ~pol.stale
                  /\ pol.current - pol.timestamp = 610 => pol.stale

\* C4 witness: the policy applied to a working record whose tool name holds
\* both "mcp" and "Browser".
C4_Witness ==
    /\ pol.applied
    /\ pol.state = "working"
    /\ pol.tool = Some(McpBrowser)
    /\ pol.threshold = 180

\* A file removed by read_all_status_files that held, when it was removed, a
\* status record with a project path that is not stale under the policy at
\* the call's clock.
HeldNotStale(d, current) ==
    /\ d.held # None
    /\ ParseStatusFile(Get(d.held)) # None
    /\ Get(ParseStatusFile(Get(d.held))).project_path # << >>
    /\ ~StaleUnderPolicy(Get(ParseStatusFile(Get(d.held))).state,
                         Get(ParseStatusFile(Get(d.held))).last_tool,
                         Get(ParseStatusFile(Get(d.held))).timestamp, current)

\* C5 (as claimed): in a call of read_all_status_files, every record returned
\* is fresh at the call's clock; every file read as a status with a project
\* path that was stale then is left out of the result and removed; and the
\* call modifies no file and deletes no status file that is not stale: every
\* change it makes is the removal of a file it read as stale, and the file it
\* removes does not hold a record that is fresh at the call's clock.
C5_StoreSelfCleans ==
    /\ \A s \in Range(q.all_sessions) :
        ~StaleUnderPolicy(StateStr(s.state), s.last_tool, s.timestamp, q.qnow)
    /\ \A e \in q.slog :
        (WellFormed(e) /\ ObservedStale(e, q.qnow)) =>
            /\ \A s \in Range(q.all_sessions) : s.session_id # file_stem(e.name)
            /\ \/ q.pending = Some(e.name)
               \/ \E r \in q.rmlog : r.name = e.name /\ r.gone
    /\ \A d \in dlog :
        d.by = "store" =>
            /\ d.after = None
            /\ \E e \in q.slog :
                e.name = d.name /\ WellFormed(e) /\ ObservedStale(e, q.qnow)
            /\ ~HeldNotStale(d, q.qnow)

\* C6 (as claimed, in the part it singles out): a query creates and modifies
\* no file, and never deletes a file that holds a fresh status record at the
\* moment of the deletion.
C6_QueryDeletesOnlyStale ==
    \A d \in dlog : d.after = None /\ ~HeldFresh(d)

\* C7: has_pending_input of a result is true exactly when one of its
\* active_sessions is WaitingForApproval, WaitingForInput or Idle.
C7_PendingInput ==
    \A i \in 1..Len(q.results) :
        q.results[i].has_pending_input <=>
            \E s \in Range(q.results[i].active_sessions) : s.state \in PendingStates

\* C7 witness: a result whose sessions are all Idle, reported as pending.
C7_Witness ==
    /\ q.pc = "done"
    /\ \E i \in 1..Len(q.results) :
        /\ q.results[i].active_sessions # << >>
        /\ \A s \in Range(q.results[i].active_sessions) : s.state = "Idle"
        /\ q.results[i].has_pending_input

\* C8 (as claimed): no record returned by read_all_status_files, by a query
\* or by list_sessions has an empty project_path.
C8_NoEmptyProjectPath ==
    /\ \A s \in Range(q.all_sessions) : s.project_path # << >>
    /\ \A i \in 1..Len(q.results) :
        \A s \in Range(q.results[i].active_sessions) : s.project_path # << >>
    /\ \A s \in Range(q.listed.sessions) : s.project_path # << >>

\* C9: a file that cannot be read or parsed does not end the scan: once
\* read_all_status_files is over, every entry of the directory listing has
\* been looked at, and every file read as a fresh status with a project path
\* has its record in the result; list_sessions returns Ok with a record for
\* every file that parses as a session.
C9_MalformedSkipped ==
    /\ (q.kind \in {"single", "all"} /\ q.pc \in {"path", "jscan", "done"}) =>
        /\ \A n \in q.entries : \E e \in q.slog : e.name = n
        /\ \A e \in q.slog :
            (WellFormed(e) /\ ~ObservedStale(e, q.qnow)) =>
                StoreSession(e.name, Observed(e)) \in Range(q.all_sessions)
    /\ (q.kind = "list" /\ q.pc = "done") =>
        /\ q.listed.ok
        /\ dirExists =>
            \A n \in DOMAIN statusDir :
                (n \notin {F_names, F_backup} /\ ends_with_json(n)
                 /\ ParseClaudeSession(statusDir[n]) # None) =>
                    Get(ParseClaudeSession(statusDir[n])) \in Range(q.listed.sessions)

\* C9 witness: a finished scan that met a malformed file first and a
\* well-formed fresh file after it.
C9_Witness ==
    /\ q.pc = "done"
    /\ \E e \in q.slog : e.decision = "fresh" /\ e.after_malformed
    /\ \E e \in q.slog : e.decision = "unparsed"

\* The last line of a transcript is a session-termination marker.
EndsWithSummary(lines) ==
    /\ lines # << >>
    /\ lines[Len(lines)] # None
    /\ Get(lines[Len(lines)]).entry_type = Some("summary")

\* C10: a transcript bound to the queried path whose last entry is a summary
\* is classified as ended although its timestamps are fresh, yields no record,
\* and the status file keyed by its project path is gone when the scanner
\* has dealt with it.
C10_EndedTranscript ==
    \A e \in q.jlog :
        LET f == transcripts[e.id]
            cwd == get_project_path_from_jsonl(f.lines)
        IN  (/\ f.ext = "jsonl"
             /\ cwd # None
             /\ paths_match(normalize_path(Get(cwd)), normalize_path(e.path))
             /\ EndsWithSummary(f.lines)) =>
                /\ e.outcome = "ended"
                /\ e.gone
                /\ e.key \in {get_status_file_path(Get(cwd), TRUE),
                              get_status_file_path(Get(cwd), FALSE)}
                /\ \A s \in Range(q.jsessions) : s.session_id # f.stem
                /\ \A i \in 1..Len(q.results) :
                    \A s \in Range(q.results[i].active_sessions) : s.session_id # f.stem

\* C10 witness: the fallback met an ended transcript and removed the status
\* file of its path.
C10_Witness ==
    /\ q.pc = "done"
    /\ \E e \in q.jlog :
        /\ e.outcome = "ended"
        /\ e.gone
        /\ \E d \in dlog : d.by = "fallback" /\ d.name = e.key /\ d.held # None

\* C11 (as claimed): the fallback returns the record derived from a transcript
\* exactly when the Store's predicate calls it fresh at the fallback's clock,
\* an age equal to the threshold included.
C11_FallbackSamePolicy ==
    \A e \in q.jlog :
        e.outcome \in {"fresh", "stale"} =>
            LET r == parse_jsonl_for_state(transcripts[e.id].lines) IN
            e.outcome = "fresh" <=>
                ~is_stale(r.timestamp, e.jnow,
                          get_stale_threshold_for_state(StateStr(r.state), r.last_tool))

\* C12 (as claimed): while Watching, when all the changes made to the
\* directory fall within one debounce window, exactly one notification has
\* been emitted once the debouncer and the channel are empty again.
C12_OneNotificationPerWindow ==
    (/\ watch.state = "Watching"
     /\ watch.first # None
     /\ Get(watch.last) - Get(watch.first) < watch.timeout
     /\ watch.event_map = {}
     /\ watch.chan = << >>) => watch.emitted = 1

\* C13: while Watching, a change to the directory is always followed by a
\* notification emitted after it.
C13_BurstNotified == watch.unnotified ~> ~watch.unnotified

\* C13 witness: a burst of changes made at two different times, an error
\* reported by the backend, and a notification emitted after them.
C13_Witness ==
    /\ watch.first # None
    /\ watch.first # watch.last
    /\ watch.errors = 1
    /\ watch.emitted >= 1
    /\ ~watch.unnotified

\* C14: a start in which a step fails returns Err, registers no state,
\* spawns no listener, leaves the watcher Stopped and no notification follows;
\* a start that returns Ok leaves the watcher Watching, registered, with its
\* listener, and the directory exists.
C14_StartAllOrNothing ==
    /\ watch.fail # "none" =>
        /\ watch.result = "Err"
        /\ watch.state = "Stopped"
        /\ ~watch.managed
        /\ ~watch.listener
        /\ watch.event_map = {}
        /\ watch.chan = << >>
        /\ watch.emitted = 0
    /\ watch.result = "Err" => watch.fail # "none"
    /\ watch.result = "Ok" =>
        /\ dirExists
        /\ watch.state = "Watching"
        /\ watch.managed
        /\ watch.listener
    /\ watch.state = "Watching" => watch.result = "Ok"

\* C14 witness: registering the watch failed, the directory was changed
\* afterwards and a debounce window went by.
C14_Witness ==
    /\ watch.fail = "watch"
    /\ watch.result = "Err"
    /\ watch.fs >= 1
    /\ watch.t >= DEBOUNCE_COMMAND_MS

\* What a settings file holds, for the installer claims.
DocOf(file) == Get(file).doc

HookCategories(file) ==
    IF file # None /\ JGet(DocOf(file), "hooks") # None
       /\ Get(JGet(DocOf(file), "hooks")).t = "obj"
    THEN DOMAIN Get(JGet(DocOf(file), "hooks")).fields ELSE {}

\* The entries of category c, empty when the category is not an array.
EntriesIn(file, c) ==
    IF c \in HookCategories(file)
       /\ Get(JGet(DocOf(file), "hooks")).fields[c].t = "arr"
    THEN Get(JGet(DocOf(file), "hooks")).fields[c].items ELSE << >>

UnmarkedIn(file, c) == SelectSeq(EntriesIn(file, c), LAMBDA h : ~IsMarked(h))

MarkedIn(file, c) == SelectSeq(EntriesIn(file, c), LAMBDA h : IsMarked(h))

RECURSIVE IsSubseq(_, _)
IsSubseq(a, b) ==
    IF a = << >> THEN TRUE
    ELSE IF b = << >> THEN FALSE
    ELSE IF Head(a) = Head(b) THEN IsSubseq(Tail(a), Tail(b))
    ELSE IsSubseq(a, Tail(b))

\* Every unmarked hook entry and every non-hook setting of `before` is in
\* `after`, unchanged and in the same relative order.
KeepsUnrelated(before, after) ==
    before # None =>
        /\ after # None
        /\ \A c \in HookCategories(before) :
            IsSubseq(UnmarkedIn(before, c), UnmarkedIn(after, c))
        /\ DocOf(before).t = "obj" =>
            /\ DocOf(after).t = "obj"
            /\ \A k \in DOMAIN DocOf(before).fields \ {"hooks"} :
                /\ k \in DOMAIN DocOf(after).fields
                /\ DocOf(after).fields[k] = DocOf(before).fields[k]
        /\ DocOf(before).t # "obj" => DocOf(after) = DocOf(before)

InstalledCategories(op) ==
    IF op = "configure_claude_hooks" THEN DOMAIN woodeye_hooks.fields
    ELSE DOMAIN generate_woodeye_hooks.fields

\* C15 (as claimed): from a settings document that is a JSON object with no
\* marked entry, two runs of the same install, one after the other, both
\* succeed, leave exactly one marked entry in every category the installer
\* installs, and the second run changes nothing.
C15_InstallIdempotent ==
    (/\ Len(settings.hist) >= 2
     /\ settings.hist[1].op \in {"configure_claude_hooks", "apply_hooks"}
     /\ settings.hist[2].op = settings.hist[1].op
     /\ settings.hist[2].began = 1
     /\ settings.hist[1].before # None
     /\ Get(settings.hist[1].before).valid
     /\ DocOf(settings.hist[1].before).t = "obj"
     /\ \A c \in HookCategories(settings.hist[1].before) :
            MarkedIn(settings.hist[1].before, c) = << >>) =>
        /\ settings.hist[1].result = "Ok"
        /\ settings.hist[2].result = "Ok"
        /\ settings.hist[2].after = settings.hist[1].after
        /\ \A c \in InstalledCategories(settings.hist[1].op) :
            Len(MarkedIn(settings.hist[2].after, c)) = 1

\* C16 (as claimed): an uninstall keeps every unmarked hook entry and every
\* non-hook setting, unchanged and in order.
C16_UninstallKeepsUnmarked ==
    \A i \in 1..Len(settings.hist) :
        settings.hist[i].op \in {"remove_claude_hooks", "remove_hooks"} =>
            KeepsUnrelated(settings.hist[i].before, settings.hist[i].after)

\* C17 (as claimed): an install keeps every unmarked hook entry and every
\* non-hook setting that the settings file held, also when the file's text
\* does not parse.
C17_InstallKeepsUnrelated ==
    \A i \in 1..Len(settings.hist) :
        settings.hist[i].op \in {"configure_claude_hooks", "apply_hooks"} =>
            KeepsUnrelated(settings.hist[i].before, settings.hist[i].after)

\* C18 (as claimed): a delete that finds the file already gone is not an
\* error.  The store's self-cleanup and the fallback's removal leave the call
\* running with the file gone, and a delete_session whose file was removed by
\* someone else after its existence test still returns Ok.
C18_DeleteIdempotent ==
    /\ \A r \in q.rmlog : r.gone
    /\ \A e \in q.jlog : e.outcome = "ended" => e.gone
    /\ (q.kind = "delete" /\ q.pc = "done") => q.del.result = "Ok"

\* The state strings the status schema knows.
KnownStates == {"working", "waiting_for_approval", "waiting_for_input", "idle"}

\* A log entry of the store scan whose file held a JSON object with a
\* non-empty project_path and a "state" that is missing or not a known one,
\* not stale at the scan's clock.
UnknownStateEntry(e) ==
    /\ extension(e.name) = "json"
    /\ e.read # None
    /\ Get(e.read) # None
    /\ IsObj(Get(Get(e.read)))
    /\ LET o == Get(Get(e.read)) IN
        /\ o.project_path # None
        /\ Get(o.project_path) # << >>
        /\ (o.state = None \/ Get(o.state) \notin KnownStates)
        /\ ~StaleUnderPolicy(IF o.state = None THEN "" ELSE Get(o.state),
                             o.last_tool,
                             IF o.timestamp = None THEN 0 ELSE Get(o.timestamp),
                             q.qnow)

\* C19 (as claimed): every status file with a project path, not stale, whose
\* state is missing or unrecognized is returned by the store as a record with
\* state Unknown under the file's stem.
C19_UnknownSurfaced ==
    \A e \in q.slog :
        UnknownStateEntry(e) =>
            \E s \in Range(q.all_sessions) :
                s.session_id = file_stem(e.name) /\ s.state = "Unknown"

\* C20 (as claimed): every record returned from the status directory carries
\* the stem of its backing file as its session key: a record of
\* read_all_status_files is the one built from a file of that stem seen by
\* the scan, and a record of list_sessions is the content of the file
\* <session_id>.json of the directory.
C20_KeyIsStem ==
    /\ \A s \in Range(q.all_sessions) :
        \E e \in q.slog :
            /\ e.decision = "fresh"
            /\ file_stem(e.name) = s.session_id
            /\ StoreSession(e.name, Observed(e)) = s
    /\ (q.kind = "list" /\ q.pc = "done") =>
        \A s \in Range(q.listed.sessions) :
            \E n \in DOMAIN statusDir :
                /\ file_stem(n) = s.session_id
                /\ ParseClaudeSession(statusDir[n]) = Some(s)

-----------------------------------------------------------------------------
(* The path matcher applied to drawn pairs of paths *)

InitMatch ==
    /\ now = T0
    /\ dirExists = FALSE
    /\ statusDir = << >>
    /\ transcripts = << >>
    /\ q = QIdle
    /\ dlog = {}
    /\ budget = [ticks |-> 0, hooks |-> 0, writing |-> None]
    /\ watch = WatchIdle
    /\ settings = SettingsIdle
    /\ pol \in { [applied |-> FALSE, raw1 |-> a, raw2 |-> b,
                   path1 |-> << >>, path2 |-> << >>, result |-> FALSE] :
                    a \in MatchPaths, b \in MatchPaths }

\* paths_match(&normalize_path(&s.project_path), &normalized) of
\* get_claude_status
ApplyMatch ==
    /\ ~pol.applied
    /\ LET path1 == normalize_path(pol.raw1)
           path2 == normalize_path(pol.raw2)
       IN  pol' = [pol EXCEPT !.applied = TRUE, !.path1 = path1, !.path2 = path2,
                              !.result = paths_match(path1, path2)]
    /\ UNCHANGED <<now, dirExists, statusDir, transcripts, q, dlog, budget, watch, settings>>

NextMatch == ApplyMatch

SpecMatch == InitMatch /\ [][NextMatch]_vars

\* Two strings are the same string: the same length and the same character
\* at every position.
SameString(a, b) == Len(a) = Len(b) /\ \A i \in 1..Len(a) : a[i] = b[i]

\* C21: paths_match on two normalized paths is true exactly when both are
\* non-empty and the same string; it is false when either is empty, both
\* empty included, and for paths that differ by case, by a prefix or by any
\* character.
C21_ExactMatch ==
    pol.applied =>
        /\ pol.result <=> (Len(pol.path1) > 0 /\ Len(pol.path2) > 0
                           /\ SameString(pol.path1, pol.path2))
        /\ (Len(pol.path1) = 0 \/ Len(pol.path2) = 0) => ~pol.result

\* C21 witness: two paths that both normalize to the empty string were
\* compared and did not match.
C21_Witness ==
    pol.applied /\ pol.path1 = << >> /\ pol.path2 = << >> /\ ~pol.result

\* C22 (as claimed): on a settings file that is valid JSON of any shape,
\* configure_claude_hooks and remove_claude_hooks return Ok or Err and never
\* panic.
C22_InstallersNeverPanic ==
    \A i \in 1..Len(settings.hist) :
        (/\ settings.hist[i].op \in {"configure_claude_hooks", "remove_claude_hooks"}
         /\ settings.hist[i].before # None
         /\ Get(settings.hist[i].before).valid) =>
            settings.hist[i].result \in {"Ok", "Err"}

-----------------------------------------------------------------------------
(* The transcript parser applied to drawn transcripts *)

MaxTail == 3
MaxFiller == 8

\* The lines a drawn transcript ends with: a line that is not JSON, user
\* messages with and without a timestamp, assistant messages with each kind
\* of stop_reason and with timestamps older than, newer than or missing
\* relative to their neighbours, an entry of another role, and a summary.
TailLines ==
    {None,
     UserLine(Some(P_p), T0 - 100),
     Entry(Some("user"), Msg(Some("user"), << >>, None), None, Some(P_p)),
     ToolUseLine(Some(P_p), BashTool, T0 - 50),
     EndTurnLine(T0 - 200),
     Entry(Some("assistant"), Msg(Some("assistant"), <<TextItem>>, Some("max_tokens")),
           BadTime, Some(P_p)),
     Entry(Some("assistant"), Msg(Some("assistant"), << >>, None), Rfc(T0 - 150),
           Some(P_p)),
     Entry(Some("system"), Msg(Some("system"), << >>, None), Rfc(T0 - 30), Some(P_p)),
     SummaryLine}

\* What a drawn transcript begins with: nothing, a summary, or a tool_use
\* message newer than every line of TailLines.
HeadLines ==
    {<< >>,
     <<Entry(Some("summary"), None, None, Some(P_p))>>,
     <<ToolUseLine(Some(P_p), WebFetch, T0 - 5)>>}

\* The transcripts drawn: a head, no lines or MaxFiller lines that are not
\* JSON, and up to MaxTail lines of TailLines.
DrawnTranscripts ==
    { head \o [i \in 1..n |-> None] \o tail :
        head \in HeadLines, n \in {0, MaxFiller},
        tail \in UNION { [1..k -> TailLines] : k \in 0..MaxTail } }

InitParse ==
    /\ now = T0
    /\ dirExists = TRUE
    /\ statusDir = [n \in {F_a, F_aFold} |-> C_work]
    /\ transcripts = << >>
    /\ q = QIdle
    /\ dlog = {}
    /\ budget = [ticks |-> 0, hooks |-> 0, writing |-> None]
    /\ watch = WatchIdle
    /\ settings = SettingsIdle
    /\ pol \in { [applied |-> FALSE, lines |-> lines, md5_ok |-> md5_ok,
                   result |-> [kind |-> "Unknown", state |-> "Unknown",
                               last_tool |-> None, timestamp |-> 0],
                   outcome |-> "none"] :
                 lines \in DrawnTranscripts, md5_ok \in BOOLEAN }

\* parse_jsonl_for_state of the drawn transcript, and what
\* scan_directory_for_jsonl does with the file when asked about /l while
\* the directory holds a file under each name get_status_file_path can give
\* /p: the removal for an ended session of the one file it names, by md5
\* when the utility runs (pol.md5_ok) and by the fold of the bytes when it
\* does not.
ApplyParse ==
    /\ ~pol.applied
    /\ LET r == ScanTranscript([stem |-> "t", ext |-> "jsonl", lines |-> pol.lines],
                               normalize_path(P_link), now)
           key == get_status_file_path(r.cwd, pol.md5_ok)
       IN  /\ pol' = [pol EXCEPT !.applied = TRUE,
                                  !.result = parse_jsonl_for_state(pol.lines),
                                  !.outcome = r.outcome]
           /\ statusDir' = IF r.outcome = "ended" /\ key \in DOMAIN statusDir
                           THEN RemoveFile(statusDir, key) ELSE statusDir
    /\ UNCHANGED <<now, dirExists, transcripts, q, dlog, budget, watch, settings>>

NextParse == ApplyParse

SpecParse == InitParse /\ [][NextParse]_vars

\* The last 10 lines of a transcript, in file order.
LastTen(lines) ==
    LET n == IF Len(lines) < 10 THEN Len(lines) ELSE 10 IN
    [i \in 1..n |-> lines[Len(lines) - n + i]]

\* The positions of LastTen(lines) that hold a parsed entry whose message
\* has role user or assistant.
RoleMessages(lines) ==
    { i \in 1..Len(LastTen(lines)) :
        /\ LastTen(lines)[i] # None
        /\ Get(LastTen(lines)[i]).message # None
        /\ Get(Get(LastTen(lines)[i]).message).role \in {Some("user"), Some("assistant")} }

SetMax(S) == CHOOSE x \in S : \A y \in S : y <= x

\* The tool_use content items of a message, in order.
ToolUseItems(msg) == SelectSeq(msg.content, LAMBDA c : c.content_type = Some("tool_use"))

\* C23: when parse_jsonl_for_state yields a state, it is the one of the most
\* recent message with role user or assistant among the last 10 lines: user
\* gives Working, assistant with tool_use gives WaitingForApproval and the
\* name of that message's tool_use item, assistant with end_turn gives
\* WaitingForInput, any other assistant message gives Working; unparsable
\* lines and other roles after that message change nothing.
C23_StateOfLatestMessage ==
    (pol.applied /\ pol.result.kind = "Active") =>
        /\ RoleMessages(pol.lines) # {}
        /\ LET msg == Get(Get(LastTen(pol.lines)[SetMax(RoleMessages(pol.lines))]).message)
           IN  /\ msg.role = Some("user") => pol.result.state = "Working"
               /\ (msg.role = Some("assistant") /\ msg.stop_reason = Some("tool_use")) =>
                    /\ pol.result.state = "WaitingForApproval"
                    /\ ToolUseItems(msg) # << >> =>
                         pol.result.last_tool =
                             ToolUseItems(msg)[Len(ToolUseItems(msg))].name
               /\ (msg.role = Some("assistant") /\ msg.stop_reason = Some("end_turn")) =>
                    pol.result.state = "WaitingForInput"
               /\ (msg.role = Some("assistant")
                   /\ msg.stop_reason \notin {Some("tool_use"), Some("end_turn")}) =>
                    pol.result.state = "Working"

\* C23 witness: a transcript with a user message, then an assistant tool_use
\* message, then a line that is no user or assistant message, parsed as
\* WaitingForApproval with the tool's name.
C23_Witness ==
    /\ pol.applied
    /\ pol.result.kind = "Active"
    /\ pol.result.state = "WaitingForApproval"
    /\ pol.result.last_tool = Some(BashTool)
    /\ Len(LastTen(pol.lines)) \notin RoleMessages(pol.lines)
    /\ \E i \in RoleMessages(pol.lines) :
          Get(Get(LastTen(pol.lines)[i]).message).role = Some("user")

\* The timestamps of the last 10 lines that parse as RFC 3339 instants.
ParsedTimestamps(lines) ==
    { Get(parse_from_rfc3339(Get(Get(LastTen(lines)[i]).timestamp))) :
        i \in { j \in 1..Len(LastTen(lines)) :
                  /\ LastTen(lines)[j] # None
                  /\ Get(LastTen(lines)[j]).timestamp # None
                  /\ parse_from_rfc3339(Get(Get(LastTen(lines)[j]).timestamp)) # None } }

\* C24 (as claimed): the timestamp of a record derived from a transcript is
\* the greatest parseable timestamp among the last 10 lines, in whatever
\* order the timestamps appear.
C24_GreatestTimestamp ==
    (pol.applied /\ pol.result.kind = "Active") =>
        /\ ParsedTimestamps(pol.lines) # {}
        /\ pol.result.timestamp = SetMax(ParsedTimestamps(pol.lines))

-----------------------------------------------------------------------------
(* The two queries as functions of the filesystem, for a directory that     *)
(* nobody else changes during the call and a clock that stands still.       *)

\* fs is [exists, dir, trs, order, torder, current, md5_ok]: the status
\* directory and the transcripts, the order in which read_dir yields their
\* entries, the clock, and whether the md5 utility runs.  Each function
\* returns its value and the status directory it leaves behind.

\* read_all_status_files: the loop over the entries, stale files removed.
RECURSIVE ReadAllLoop(_, _, _, _)
ReadAllLoop(dir, order, current, sessions) ==
    IF order = << >> THEN [sessions |-> sessions, dir |-> dir]
    ELSE LET name == Head(order)
             read == ReadFile(dir, name)
             decision == StoreDecision(name, read, current)
         IN  ReadAllLoop(IF decision = "stale" THEN RemoveFile(dir, name) ELSE dir,
                         Tail(order), current,
                         IF decision = "fresh"
                         THEN Append(sessions,
                                     StoreSession(name, Get(ParseStatusFile(Get(read)))))
                         ELSE sessions)

read_all_status_files(fs) ==
    IF ~fs.exists THEN [sessions |-> << >>, dir |-> fs.dir]
    ELSE ReadAllLoop(fs.dir, SelectSeq(fs.order, LAMBDA n : n \in DOMAIN fs.dir),
                     fs.current, << >>)

\* find_sessions_from_jsonl: every transcript scanned, the status file of an
\* ended one removed.
RECURSIVE FallbackLoop(_, _, _, _, _)
FallbackLoop(fs, torder, worktree_path, dir, sessions) ==
    IF torder = << >> THEN [sessions |-> sessions, dir |-> dir]
    ELSE LET r == ScanTranscript(fs.trs[Head(torder)], normalize_path(worktree_path),
                                 fs.current)
             key == get_status_file_path(r.cwd, fs.md5_ok)
         IN  FallbackLoop(fs, Tail(torder), worktree_path,
                          IF r.outcome = "ended" /\ key \in DOMAIN dir
                          THEN RemoveFile(dir, key) ELSE dir,
                          IF r.outcome = "fresh" THEN Append(sessions, r.session)
                          ELSE sessions)

find_sessions_from_jsonl(fs, worktree_path, dir) ==
    FallbackLoop(fs, fs.torder, worktree_path, dir, << >>)

\* The filter, the fallback and the result for one path, given the sessions
\* read from the store and the directory as it is now.
StatusForPath(fs, all_sessions, worktree_path, dir) ==
    LET active == MatchingSessions(all_sessions, worktree_path) IN
    IF NeedsFallback(active)
    THEN LET f == find_sessions_from_jsonl(fs, worktree_path, dir) IN
         [status |-> Status(worktree_path, f.sessions, TRUE), dir |-> f.dir]
    ELSE [status |-> Status(worktree_path, active, FALSE), dir |-> dir]

get_claude_status(fs, worktree_path) ==
    LET store == read_all_status_files(fs) IN
    StatusForPath(fs, store.sessions, worktree_path, store.dir)

\* let active_sessions: Vec<_> = all_sessions.iter().filter(..).cloned()
\* .collect() of the loop body: the sessions whose normalized project_path
\* matches the normalized worktree_path.
BatchActive(all_sessions, worktree_path) ==
    SelectSeq(all_sessions,
              LAMBDA s : paths_match(normalize_path(s.project_path),
                                     normalize_path(worktree_path)))

\* result.insert(worktree_path.clone(), ClaudeStatus { .. }) of the loop
\* body, with has_pending_input computed from the sessions inserted.
BatchInsert(worktree_path, sessions, fallback, dir) ==
    [status |-> [path |-> worktree_path,
                 active_sessions |-> sessions,
                 has_pending_input |->
                     \E i \in 1..Len(sessions) :
                         sessions[i].state
                             \in {"WaitingForApproval", "WaitingForInput", "Idle"},
                 fallback |-> fallback],
     dir |-> dir]

\* The entry inserted when nothing in all_sessions matched: the sessions
\* find_sessions_from_jsonl found, and the directory it left.
BatchFallback(worktree_path, found) ==
    BatchInsert(worktree_path, found.sessions, TRUE, found.dir)

BatchEntry_Reread(fs, all_sessions, worktree_path, dir) ==
    IF BatchActive(read_all_status_files([fs EXCEPT !.dir = dir]).sessions,
                   worktree_path) = << >>
    THEN BatchFallback(worktree_path,
                       find_sessions_from_jsonl(
                           fs, worktree_path,
                           read_all_status_files([fs EXCEPT !.dir = dir]).dir))
    ELSE BatchInsert(worktree_path,
                     BatchActive(read_all_status_files([fs EXCEPT !.dir = dir]).sessions,
                                 worktree_path),
                     FALSE, read_all_status_files([fs EXCEPT !.dir = dir]).dir)

\* The body of the loop of get_all_claude_statuses for one worktree_path,
\* given the all_sessions read before the loop and the status directory as
\* the turns before this one left it: the path is normalized, all_sessions
\* is filtered, find_sessions_from_jsonl runs when nothing matched, and the
\* entry is inserted into the result.
BatchEntry(fs, all_sessions, worktree_path, dir) ==
    IF BatchActive(all_sessions, worktree_path) = << >>
    THEN BatchFallback(worktree_path,
                       find_sessions_from_jsonl(fs, worktree_path, dir))
    ELSE BatchInsert(worktree_path, BatchActive(all_sessions, worktree_path),
                     FALSE, dir)

\* for worktree_path in worktree_paths { .. result.insert(..) }
RECURSIVE BatchLoop(_, _, _, _, _)
BatchLoop(fs, all_sessions, worktree_paths, dir, result) ==
    IF worktree_paths = << >> THEN [result |-> result, dir |-> dir]
    ELSE LET r == BatchEntry(fs, all_sessions, Head(worktree_paths), dir) IN
         BatchLoop(fs, all_sessions, Tail(worktree_paths), r.dir,
                   Append(result, r.status))

\* get_all_claude_statuses: the store read once, then every path in turn;
\* result[i] is the entry inserted for worktree_paths[i].
get_all_claude_statuses(fs, worktree_paths) ==
    LET store == read_all_status_files(fs) IN
    BatchLoop(fs, store.sessions, worktree_paths, store.dir, << >>)

\* The lists of paths asked about: the symlink and the plain and slashed
\* spellings of /p before and after /q.
BatchLists == {<<P_pSlash, P_q>>, <<P_q, P_link>>, <<P_link, P_p, P_q>>}

\* The transcripts found: those of InitTranscripts, and an ended session
\* whose cwd is spelled "/p/" next to the session of /q.
BatchTranscripts ==
    InitTranscripts \cup
    { [i \in {1, 2} |->
         IF i = 1
         THEN [X_ended EXCEPT !.lines = <<UserLine(Some(P_pSlash), T0 - 30), SummaryLine>>]
         ELSE X_working] }

InitBatch ==
    /\ now \in {T0, T0 + 1}
    /\ statusDir \in InitDirs
    /\ dirExists \in BOOLEAN
    /\ dirExists = FALSE => statusDir = << >>
    /\ transcripts \in BatchTranscripts
    /\ q = QIdle
    /\ dlog = {}
    /\ budget = [ticks |-> 0, hooks |-> 0, writing |-> None]
    /\ watch = WatchIdle
    /\ settings = SettingsIdle
    /\ pol \in { [applied |-> FALSE,
                   fs |-> [exists |-> dirExists, dir |-> statusDir, trs |-> transcripts,
                           order |-> order, torder |-> torder, current |-> now,
                           md5_ok |-> md5_ok],
                   paths |-> paths, batch |-> << >>, single |-> << >>,
                   later |-> << >>] :
                    order \in Enumerations(DOMAIN statusDir),
                    torder \in Enumerations(DOMAIN transcripts),
                    md5_ok \in BOOLEAN, paths \in BatchLists }

\* get_all_claude_statuses(paths) on the filesystem drawn; beside it, for
\* every p of the list, get_claude_status(p) on that same filesystem
\* (single), and the entry for p of a batched call made on the filesystem
\* that get_claude_status(p) left behind (later).
ApplyBatch ==
    /\ ~pol.applied
    /\ LET batch == get_all_claude_statuses(pol.fs, pol.paths) IN
        /\ pol' = [pol EXCEPT
                     !.applied = TRUE,
                     !.batch = batch.result,
                     !.single = [i \in 1..Len(pol.paths) |->
                                    get_claude_status(pol.fs, pol.paths[i]).status],
                     !.later = [i \in 1..Len(pol.paths) |->
                                   get_all_claude_statuses(
                                       [pol.fs EXCEPT !.dir =
                                            get_claude_status(pol.fs, pol.paths[i]).dir],
                                       pol.paths).result[i]]]
        /\ statusDir' = batch.dir
    /\ UNCHANGED <<now, dirExists, transcripts, q, dlog, budget, watch, settings>>

NextBatch == ApplyBatch

SpecBatch == InitBatch /\ [][NextBatch]_vars

\* C25: on one filesystem and one clock, the entry of the batched result for
\* each path of the list has the same active_sessions, in the same order,
\* and the same has_pending_input as get_claude_status of that path, whatever
\* the turns of the loop for the paths before it removed from the status
\* directory; and so has the entry of a batched call made after
\* get_claude_status of that path has returned.
C25_BatchEqualsSingle ==
    pol.applied =>
        /\ Len(pol.batch) = Len(pol.paths)
        /\ \A i \in 1..Len(pol.paths) :
            /\ pol.batch[i].active_sessions = pol.single[i].active_sessions
            /\ pol.batch[i].has_pending_input = pol.single[i].has_pending_input
            /\ pol.later[i].active_sessions = pol.single[i].active_sessions
            /\ pol.later[i].has_pending_input = pol.single[i].has_pending_input

\* C25 witness: a batched call in which the fallback of one path removed a
\* status file that was not stale, and a later path of the list got its
\* sessions from the one store read.
C25_Witness ==
    /\ pol.applied
    /\ \E n \in (DOMAIN pol.fs.dir) \ (DOMAIN statusDir) :
          StoreDecision(n, ReadFile(pol.fs.dir, n), pol.fs.current) # "stale"
    /\ \E i, j \in 1..Len(pol.paths) :
        /\ i < j
        /\ pol.batch[i].fallback
        /\ ~pol.batch[j].fallback
        /\ pol.batch[j].active_sessions # << >>

-----------------------------------------------------------------------------
(* The consumer polling for ever while time passes *)

MaxAdvances == 2

\* The clock moves on by more than the largest threshold of the policy.
EvictStep == WAITING_STATE_STALE_THRESHOLD + 1

Advance ==
    /\ budget.ticks > 0
    /\ budget' = [budget EXCEPT !.ticks = @ - 1]
    /\ now' = now + EvictStep
    /\ UNCHANGED <<dirExists, statusDir, transcripts, q, dlog, pol, watch, settings>>

\* The call has returned; the consumer will ask again.
Return ==
    /\ q.pc = "done"
    /\ q' = QIdle
    /\ UNCHANGED <<now, dirExists, statusDir, transcripts, dlog, budget, pol, watch, settings>>

\* One step of the consumer: it asks, the call runs, returns, and it asks
\* again.
Consumer ==
    \/ GetClaudeStatus
    \/ ListStatusDir
    \/ ScanStep
    \/ RemoveStale
    \/ PathStep
    \/ JScanStep
    \/ Return

\* The status directories found at start: the record of the idle session of
\* /p/, with or without the record of the working session of /p.
EvictDirs ==
    { d \in InitDirs : F_b \in DOMAIN d /\ \A n \in DOMAIN d : d[n] \in {C_work, C_idle} }

InitEvict ==
    /\ now = T0
    /\ dirExists = TRUE
    /\ statusDir \in EvictDirs
    /\ transcripts \in { t \in InitTranscripts : t # << >> /\ t[1] = X_ended }
    /\ q = QIdle
    /\ dlog = {}
    /\ budget = [ticks |-> MaxAdvances, hooks |-> MaxHookOps, writing |-> None]
    /\ pol = PolIdle
    /\ watch = WatchIdle
    /\ settings = SettingsIdle

NextEvict ==
    \/ Consumer
    \/ HookMkdir
    \/ HookDate
    \/ HookOpen
    \/ HookWrite
    \/ Advance

\* The consumer keeps querying and every call runs to its end; time advances
\* while the bound allows.
SpecEvict ==
    /\ InitEvict
    /\ [][NextEvict]_vars
    /\ WF_vars(Consumer)
    /\ WF_vars(Advance)

\* The status file `name` holds a record with a project path and a timestamp
\* > 0, no hook will write any more, and either the record is already stale
\* or the clock is still to advance.
DeadSession(name) ==
    /\ budget.hooks = 0
    /\ budget.writing = None
    /\ name \in DOMAIN statusDir
    /\ ParseStatusFile(statusDir[name]) # None
    /\ LET st == Get(ParseStatusFile(statusDir[name])) IN
        /\ st.project_path # << >>
        /\ st.timestamp > 0
        /\ \/ budget.ticks > 0
           \/ StaleUnderPolicy(st.state, st.last_tool, st.timestamp, now)

\* C26: a dead session is eventually evicted and stays evicted: its status
\* file is eventually removed, a file that is gone comes back only by a
\* hook's write, and a query that removed a file returns no record of it.
C26_DeadSessionEvicted ==
    /\ (\E name \in StatusNames : DeadSession(name))
           ~> (\A name \in StatusNames : ~DeadSession(name))
    /\ [][\A name \in StatusNames :
            (name \notin DOMAIN statusDir /\ name \in DOMAIN statusDir')
                => (budget.writing # None /\ Get(budget.writing).pc = "open")]_vars
    /\ [](\A r \in q.rmlog : \A s \in Range(q.all_sessions) :
            s.session_id # file_stem(r.name))

\* C26 witness: a query removed the file that the hook of /p had written
\* after the start, once the clock had advanced.
C26_Witness ==
    /\ budget.hooks = 0
    /\ \E d \in dlog :
        /\ d.by = "store"
        /\ d.name = F_a
        /\ d.held \in { Some(c) : c \in HookContents(T0) \cup HookContents(T0 + EvictStep) }
    /\ F_a \notin DOMAIN statusDir

-----------------------------------------------------------------------------
(* The walk of the fallback scan over a tree of directories *)

MaxTreeDepth == 6

\* The limit of `path.components().count() < 10`.
DEPTH_LIMIT == 10

\* A path is the sequence of its components, the root directory "/" being
\* the first, as Path::components yields them.
\* A drawn tree is [home, depth, loop]: under <home>/.claude/projects there
\* is one chain of directories d/d/../d of length depth, each holding a
\* transcript t.jsonl; when loop > 0 the directory at that level also holds
\* a symbolic link "up" to the first directory of the chain.
HomeDirs ==
    {<<"/", "root">>, <<"/", "home", "u">>, <<"/", "srv", "vol", "users", "u">>,
     <<"/", "a", "b", "c", "d", "e", "f", "g">>}

get_claude_projects_dir(tree) == tree.home \o <<".claude", "projects">>

\* fs::read_dir of the directory at `level` of the chain: the entries as
\* [name, is_dir, target], target the level a directory entry leads to.
ReadDir(tree, level) ==
    {[name |-> "t.jsonl", is_dir |-> FALSE, target |-> 0]}
    \cup (IF level < tree.depth
          THEN {[name |-> "d", is_dir |-> TRUE, target |-> level + 1]} ELSE {})
    \cup (IF level = tree.loop
          THEN {[name |-> "up", is_dir |-> TRUE, target |-> 1]} ELSE {})

\* scan_directory_for_jsonl(dir, ..): the paths of the transcripts it
\* examines in `dir` and below.
RECURSIVE scan_directory_for_jsonl(_, _, _)
scan_directory_for_jsonl(tree, level, dir) ==
    { Append(dir, e.name) : e \in { f \in ReadDir(tree, level) : ~f.is_dir } }
    \cup UNION { scan_directory_for_jsonl(tree, e.target, Append(dir, e.name)) :
                   e \in { f \in ReadDir(tree, level) :
                             f.is_dir /\ Len(Append(dir, f.name)) < DEPTH_LIMIT } }

\* find_sessions_from_jsonl: every directory of the projects directory is
\* scanned.
ScanProjects(tree) ==
    IF tree.depth = 0 THEN {}
    ELSE scan_directory_for_jsonl(tree, 1, Append(get_claude_projects_dir(tree), "d"))

InitTree ==
    /\ now = T0
    /\ dirExists = FALSE
    /\ statusDir = << >>
    /\ transcripts = << >>
    /\ q = QIdle
    /\ dlog = {}
    /\ budget = [ticks |-> 0, hooks |-> 0, writing |-> None]
    /\ watch = WatchIdle
    /\ settings = SettingsIdle
    /\ pol \in { [applied |-> FALSE,
                   tree |-> [home |-> home, depth |-> depth, loop |-> loop],
                   examined |-> {}] :
                    home \in HomeDirs, depth \in 0..MaxTreeDepth,
                    loop \in 0..MaxTreeDepth }

ApplyScan ==
    /\ ~pol.applied
    /\ pol' = [pol EXCEPT !.applied = TRUE, !.examined = ScanProjects(pol.tree)]
    /\ UNCHANGED <<now, dirExists, statusDir, transcripts, q, dlog, budget, watch, settings>>

NextTree == ApplyScan

SpecTree == InitTree /\ [][NextTree]_vars

\* The path of the transcript in the directory at `level` of the chain,
\* reached through the directories themselves.
TranscriptAt(tree, level) ==
    get_claude_projects_dir(tree) \o [i \in 1..level |-> "d"] \o <<"t.jsonl">>

\* C27 (as claimed): the scan ends on every tree, symbolic link cycles
\* included, it enters no directory more than 10 levels below the projects
\* directory, and it examines every transcript that lies within 10 levels
\* below the projects directory.
C27_ScanWithinDepth ==
    pol.applied =>
        /\ \A path \in pol.examined :
              Len(path) - 1 - Len(get_claude_projects_dir(pol.tree)) <= 10
        /\ \A level \in 1..pol.tree.depth :
              level <= 10 => TranscriptAt(pol.tree, level) \in pol.examined

\* The positions of the last 10 lines that hold a parsed entry of type
\* "summary".
SummariesInWindow(lines) ==
    { i \in 1..Len(LastTen(lines)) :
        LastTen(lines)[i] # None /\ Get(LastTen(lines)[i]).entry_type = Some("summary") }

\* The status file of /p: the name the hooks give it when the md5 utility
\* runs, and the name the fold of the path's bytes gives it when not.
StatusFileOfP == IF pol.md5_ok THEN F_a ELSE F_aFold

\* The file under the other of the two names.
OtherFileOfP == IF pol.md5_ok THEN F_aFold ELSE F_a

\* C28: parse_jsonl_for_state answers SessionEnded exactly when some parsed
\* entry among the last 10 lines has type "summary", wherever it stands; then
\* the scan yields no record and removes the status file of the transcript's
\* project (the file get_status_file_path names, whether or not the md5
\* utility runs, and no other file), also when newer messages follow the
\* marker; a marker older than the last 10 lines ends nothing.
C28_SummaryAnywhereEnds ==
    pol.applied =>
        /\ (pol.result.kind = "SessionEnded") <=> (SummariesInWindow(pol.lines) # {})
        /\ (pol.outcome = "ended") =>
              (SummariesInWindow(pol.lines) # {} /\ StatusFileOfP \notin DOMAIN statusDir)
        /\ (SummariesInWindow(pol.lines) # {}
            /\ get_project_path_from_jsonl(pol.lines) = Some(P_p)) =>
              (pol.outcome = "ended" /\ StatusFileOfP \notin DOMAIN statusDir)
        /\ SummariesInWindow(pol.lines) = {} => StatusFileOfP \in DOMAIN statusDir
        /\ OtherFileOfP \in DOMAIN statusDir

\* C28 witness: with the md5 utility failing, a transcript whose marker is
\* followed by a newer user or assistant message within the last 10 lines was
\* classified as ended and the status file of /p under its fold name was
\* removed.
C28_Witness ==
    /\ pol.applied
    /\ ~pol.md5_ok
    /\ pol.result.kind = "SessionEnded"
    /\ F_aFold \notin DOMAIN statusDir
    /\ \E i \in SummariesInWindow(pol.lines) :
          \E j \in RoleMessages(pol.lines) : i < j

\* C29 (as claimed): after start has succeeded more than once, at most one
\* listener is left, the watcher of the first start is the one registered and
\* running, and when the changes made to the directory after that all fall
\* within one debounce window exactly one notification has been emitted once
\* the debouncer and the channel are empty again.
C29_RestartKeepsOneNotification ==
    (watch.again >= 1 /\ watch.spare = 0) =>
        /\ watch.state = "Watching"
        /\ watch.managed
        /\ watch.listener
        /\ ~watch.other.listener
        /\ (/\ watch.before = 0
            /\ watch.first # None
            /\ Get(watch.last) - Get(watch.first) < watch.timeout
            /\ watch.event_map = {}
            /\ watch.chan = << >>
            /\ watch.other.event_map = {}
            /\ watch.other.chan = << >>) => watch.emitted = 1

-----------------------------------------------------------------------------
(* list_sessions and delete_session of claude_status.rs, one after the     *)
(* other, while the hooks of a session write to the directory: every file  *)
(* access of delete_session and of the hooks is a step of its own.         *)

\* What names.json holds in this part: the names of the sessions s1 and s9.
N_names == NamesObj([k \in {"s1", "s9"} |->
                        IF k = "s1" THEN "fix the bug" ELSE "other"])

\* names.json as bytes that are not UTF-8: {"s9":"a\xff"} and {"s1":"a\xff"}.
\* jq reads the byte ff as U+FFFD, which takes three bytes when it is
\* written back and is spelled <?> here.
N_lossy == LossyBytes(NamesObj([k \in {"s9"} |-> "a<?>"]))
N_lossyOwn == LossyBytes(NamesObj([k \in {"s1"} |-> "a<?>"]))
\* names.json as text that is not JSON: {"s9":"x"} followed by a word.
N_trailing == Trailing(NamesObj([k \in {"s9"} |-> "x"]))

\* A record of the session s1 written as a JSON array, in the order of
\* ClaudeSession's fields.
C_sessionArray == Arr(<<JStr(P_p), JStr("s1"), JStr("idle"), JNum(400), JNull>>)

\* How many files a status directory of this part holds at most.
MaxSessionFiles == 3

\* The status directories of this part: the file the hooks of
\* configure_claude_hooks name after the hash of /p/ and, without md5,
\* ".json"; the files s1.json and s3.json; names.json, which may hold a map
\* of names, text that is not JSON (with and without a JSON value at its
\* start), the record of a session (an object of strings) or bytes that are
\* not UTF-8 (three kinds).  Each is absent or holds one of the contents
\* listed.
SessionDirChoices ==
    [n \in {F_b, F_dot, F_names, DeleteName("s1"), DeleteName("s3")} |->
        IF n = F_b THEN {None, Some(C_idle), Some(C_noState), Some(C_garbage)}
        ELSE IF n = F_dot THEN {None, Some(C_idle)}
        ELSE IF n = F_names
             THEN {None, Some(C_garbage), Some(N_names), Some(C_zero), Some(C_bytes),
                   Some(N_lossy), Some(N_lossyOwn), Some(N_trailing)}
        ELSE IF n = DeleteName("s1")
             THEN {None, Some(C_idle), Some(C_emptyPath), Some(C_sessionArray)}
             ELSE {None, Some(C_emptyPath), Some(C_work)}]

SessionDirs ==
    { [n \in {m \in DOMAIN SessionDirChoices : f[m] # None} |-> Get(f[n])] :
        f \in { g \in [DOMAIN SessionDirChoices ->
                          {None} \cup {Some(c) : c \in InitContents
                                                   \cup {N_names, C_sessionArray, N_lossy,
                                                         N_lossyOwn, N_trailing}}] :
                   /\ \A n \in DOMAIN SessionDirChoices : g[n] \in SessionDirChoices[n]
                   /\ Cardinality({n \in DOMAIN SessionDirChoices : g[n] # None})
                          <= MaxSessionFiles } }

\* The consumer of this part: list_sessions(), delete_session of one listed
\* session, list_sessions() again.  pol is its record: pc is what it does
\* next; before and after are the two lists; id and result the argument and
\* the result of delete_session; names the map remove_session_name is about
\* to write.  external tells whether a hook has changed the directory since
\* the first list_sessions began.  replaced tells whether mv has put another
\* file in the place of names.json since remove_session_name opened it, and
\* hook_wrote whether the echo of name_cmd has written into it since then;
\* call_wrote tells whether remove_session_name has written into names.json
\* since the echo of name_cmd opened it.
SessionsIdle ==
    [pc |-> "idle", before |-> << >>, id |-> "", result |-> "none", after |-> << >>,
     names |-> << >>, external |-> FALSE, replaced |-> FALSE, hook_wrote |-> FALSE,
     call_wrote |-> FALSE]

InitSessions ==
    /\ now = T0
    /\ dirExists = TRUE
    /\ statusDir \in SessionDirs
    /\ transcripts = << >>
    /\ q = QIdle
    /\ dlog = {}
    /\ budget = [ticks |-> 0, hooks |-> MaxHookOps, writing |-> None]
    /\ watch = WatchIdle
    /\ settings = SettingsIdle
    /\ pol = SessionsIdle

\* The session whose hooks run in this part: s1 in /p.  Its first prompt is
\* "fix the bug", of which name_cmd keeps the first 50 bytes without the
\* last word.
HookSession == "s1"
HookPromptName == "fix the"

\* The records base_cmd(state) of generate_woodeye_hooks echoes into
\* <session_id>.json, with the value `current` of $(date +%s).
SessionHookContents(current) ==
    { Obj(Some(P_p), Some(st), Some(current), None, None, Some(HookSession)) :
        st \in {"idle", "working", "waiting_for_approval"} }

\* What a writing hook of this part echoes into the file it opened: the
\* hooks of generate_woodeye_hooks write <session_id>.json, and those of
\* configure_claude_hooks the file the md5 pipeline names.
SessionHookWrites(name, current) ==
    IF name = DeleteName(HookSession) THEN SessionHookContents(current)
    ELSE HookContents(current)

\* The consumer's record after a hook has left the directory as `dir`.
AfterHook(dir) ==
    [pol EXCEPT !.external = @ \/ (pol.pc # "idle" /\ dir # statusDir)]

\* The redirection of a writing hook, after its mkdir -p and $(date +%s):
\* the file is created, or truncated when it is there.
SessionHookOpen ==
    /\ pol.pc # "done"
    /\ budget.writing # None
    /\ Get(budget.writing).pc = "open"
    /\ \E md5_ok \in BOOLEAN :
        \E name \in {DeleteName(HookSession), HookName(md5_ok)} :
            /\ name \in DOMAIN statusDir
                  \/ Cardinality(DOMAIN statusDir) < MaxSessionFiles
            /\ budget' = [budget EXCEPT !.writing =
                              Some([Get(budget.writing) EXCEPT
                                        !.pc = "write", !.name = name])]
            /\ statusDir' = WriteFile(statusDir, name, EmptyFile)
            /\ pol' = AfterHook(WriteFile(statusDir, name, EmptyFile))
    /\ UNCHANGED <<now, dirExists, transcripts, q, dlog, watch, settings>>

\* echo writes into the file that was opened.
SessionHookWrite ==
    /\ pol.pc # "done"
    /\ budget.writing # None
    /\ Get(budget.writing).pc = "write"
    /\ \E c \in SessionHookWrites(Get(budget.writing).name, Get(budget.writing).date) :
        LET dir == IF Get(budget.writing).name \in DOMAIN statusDir
                   THEN WriteFile(statusDir, Get(budget.writing).name, c)
                   ELSE statusDir
        IN  statusDir' = dir /\ pol' = AfterHook(dir)
    /\ budget' = [budget EXCEPT !.writing = None]
    /\ UNCHANGED <<now, dirExists, transcripts, q, dlog, watch, settings>>

\* The JSON values jq reads from a file before its input ends or fails:
\* none from text that does not begin with a value and from the bytes
\* NotUtf8; the value spelled with U+FFFD of other bytes that are not UTF-8;
\* the leading value of text that goes on with something else; the value of
\* a JSON text.
JqValues(content) ==
    IF content = None THEN << >>
    ELSE IF IsBytes(Get(content))
    THEN IF IsLossy(Get(content)) THEN <<Get(content).lossy>> ELSE << >>
    ELSE IF IsTrailing(Get(content)) THEN <<Get(content).lead>>
    ELSE <<content>>

\* How jq's reading of the file ends: "ok" at the end of the input, "error"
\* at text that is no JSON.  The content None is the empty text, which jq
\* reads to its end, or text that is no JSON.
JqEnds(content) ==
    IF content = None THEN {"ok", "error"}
    ELSE IF IsBytes(Get(content))
    THEN IF IsLossy(Get(content)) THEN {"ok"} ELSE {"error"}
    ELSE IF IsTrailing(Get(content)) THEN {"error"}
    ELSE {"ok"}

\* name_cmd (UserPromptSubmit), up to `if [ -z "$ex" ]`: ex is what
\* jq -r --arg s "$sid" '.[$s] // empty' "$nf" 2>/dev/null prints, the name
\* that the value jq reads from names.json holds for the session (nothing
\* for an array, which a string does not index), and "" when the file is not
\* there.  The hook goes on only when ex is empty.
SessionNameTest ==
    /\ pol.pc # "done"
    /\ budget.hooks > 0
    /\ budget.writing = None
    /\ LET values == IF F_names \in DOMAIN statusDir
                     THEN JqValues(statusDir[F_names]) ELSE << >>
           ex == IF values = << >> THEN ""
                 ELSE IF HookSession \in DOMAIN NamesOf(values[1])
                 THEN NamesOf(values[1])[HookSession]
                 ELSE ""
       IN  budget' = [budget EXCEPT
                        !.hooks = @ - 1,
                        !.writing = IF Len(ex) = 0
                                    THEN Some([pc |-> "name_add", name |-> F_names,
                                               date |-> 0])
                                    ELSE None]
    /\ UNCHANGED <<now, dirExists, statusDir, transcripts, q, dlog, pol, watch, settings>>

\* The text echo "{\"$sid\":\"$name\"}" writes: the two strings, their
\* quotes, the braces, the colon and the newline.
EchoLen == Len(HookSession) + Len(HookPromptName) + 8

\* The length of serde_json::to_string_pretty of a map of names.
NamesLen(names) == PrettyLen(JObj([k \in DOMAIN names |-> JStr(names[k])]), 0)

\* name_cmd when `[ -f "$nf" ]` fails: the redirection of
\* echo "{"$sid":"$name"}" > names.json creates the file.
SessionNameOpen ==
    /\ pol.pc # "done"
    /\ budget.writing # None
    /\ Get(budget.writing).pc = "name_add"
    /\ F_names \notin DOMAIN statusDir
    /\ Cardinality(DOMAIN statusDir) < MaxSessionFiles
    /\ budget' = [budget EXCEPT !.writing = Some([Get(budget.writing) EXCEPT
                                                     !.pc = "name"])]
    /\ statusDir' = WriteFile(statusDir, F_names, EmptyFile)
    /\ pol' = [AfterHook(WriteFile(statusDir, F_names, EmptyFile))
                  EXCEPT !.call_wrote = FALSE]
    /\ UNCHANGED <<now, dirExists, transcripts, q, dlog, watch, settings>>

\* and echo writes the map of the one name into the file it opened, from
\* offset 0: when remove_session_name has written a longer text into the
\* file since, the tail of that text stays behind the map, and the file is
\* not JSON.
SessionNameWrite ==
    /\ pol.pc # "done"
    /\ budget.writing # None
    /\ Get(budget.writing).pc = "name"
    /\ LET dir == IF F_names \notin DOMAIN statusDir THEN statusDir
                  ELSE IF pol.call_wrote /\ EchoLen < NamesLen(pol.names)
                  THEN WriteFile(statusDir, F_names,
                           Trailing(NamesObj([k \in {HookSession} |-> HookPromptName])))
                  ELSE WriteFile(statusDir, F_names,
                           NamesObj([k \in {HookSession} |-> HookPromptName]))
       IN  /\ statusDir' = dir
           /\ pol' = [AfterHook(dir) EXCEPT
                         !.hook_wrote = @ \/ pol.pc = "names_write"]
    /\ budget' = [budget EXCEPT !.writing = None]
    /\ UNCHANGED <<now, dirExists, transcripts, q, dlog, watch, settings>>

\* name_cmd when `[ -f "$nf" ]` holds: the redirection > "$nf.tmp" of the
\* jq command creates names.json.tmp, or truncates it, before jq runs.
SessionNameTmp ==
    /\ pol.pc # "done"
    /\ budget.writing # None
    /\ Get(budget.writing).pc = "name_add"
    /\ F_names \in DOMAIN statusDir
    /\ F_tmp \in DOMAIN statusDir \/ Cardinality(DOMAIN statusDir) < MaxSessionFiles
    /\ budget' = [budget EXCEPT !.writing = Some([Get(budget.writing) EXCEPT
                                                     !.pc = "name_jq"])]
    /\ statusDir' = WriteFile(statusDir, F_tmp, EmptyFile)
    /\ pol' = AfterHook(WriteFile(statusDir, F_tmp, EmptyFile))
    /\ UNCHANGED <<now, dirExists, transcripts, q, dlog, watch, settings>>

\* An object whose values are all strings, as the model writes it.
IsStringMap(content) ==
    content # None
    /\ (IsNames(Get(content)) \/ (IsObj(Get(content)) /\ Get(content).timestamp = None))

\* '. + {($s): $n}' of an object: the object with the session's name put in.
JqAdd(value) ==
    NamesObj([k \in (DOMAIN NamesOf(value)) \cup {HookSession} |->
                 IF k = HookSession THEN HookPromptName ELSE NamesOf(value)[k]])

\* 'del(.[$s])' of an object: the object without the session's key.
JqDel(value) ==
    IF IsNames(Get(value))
    THEN NamesObj([k \in (DOMAIN NamesOf(value)) \ {HookSession} |->
                      NamesOf(value)[k]])
    ELSE value

\* The two filters of the hooks, by name.
JqFilter(filter, value) ==
    IF filter = "add" THEN JqAdd(value) ELSE JqDel(value)

\* jq <filter> "$nf" > "$nf.tmp" on a names.json that holds `content`: what
\* names.json.tmp holds afterwards and jq's exit status.  jq writes the
\* result for the value it has read before it reads on, so a value followed
\* by text that is no JSON gives both a result and an error.  With no value
\* read, and with an array (which neither filter accepts), nothing is
\* written and names.json.tmp stays empty.
JqOutcomes(content, filter) ==
    IF JqValues(content) = << >>
    THEN { [written |-> EmptyFile, status |-> e] : e \in JqEnds(content) }
    ELSE IF IsArr(Get(JqValues(content)[1]))
    THEN { [written |-> EmptyFile, status |-> "error"] }
    ELSE { [written |-> JqFilter(filter, JqValues(content)[1]), status |-> e] :
             e \in JqEnds(content) }

\* What the hook's jq makes of the directory: an error with nothing written
\* when names.json is gone by the time jq opens it.
JqRuns(dir, filter) ==
    IF F_names \in DOMAIN dir THEN JqOutcomes(dir[F_names], filter)
    ELSE { [written |-> EmptyFile, status |-> "error"] }

\* jq --arg s "$sid" --arg n "$name" '. + {($s): $n}' "$nf" > "$nf.tmp":
\* jq reads names.json as it is now and writes the object with the session's
\* name into names.json.tmp.  When jq fails, `&&` skips mv and
\* names.json.tmp stays behind.  (No names.json of this part holds an
\* object with a number in it.)
SessionNameJq ==
    /\ pol.pc # "done"
    /\ budget.writing # None
    /\ Get(budget.writing).pc = "name_jq"
    /\ \E outcome \in JqRuns(statusDir, "add") :
        /\ outcome.written # EmptyFile =>
               IsStringMap(JqValues(statusDir[F_names])[1])
        /\ budget' = [budget EXCEPT !.writing =
                         IF outcome.status = "error" THEN None
                         ELSE Some([Get(budget.writing) EXCEPT !.pc = "mv"])]
        /\ LET dir == IF F_tmp \notin DOMAIN statusDir THEN statusDir
                      ELSE WriteFile(statusDir, F_tmp, outcome.written)
           IN  statusDir' = dir /\ pol' = AfterHook(dir)
    /\ UNCHANGED <<now, dirExists, transcripts, q, dlog, watch, settings>>

\* mv "$nf.tmp" "$nf" of name_cmd and of cleanup_cmd: names.json.tmp takes
\* the place of names.json in one step.  A process that has names.json open
\* keeps the file that was there.
SessionNamesMv ==
    /\ pol.pc # "done"
    /\ budget.writing # None
    /\ Get(budget.writing).pc = "mv"
    /\ budget' = [budget EXCEPT !.writing = None]
    /\ LET dir == IF F_tmp \notin DOMAIN statusDir THEN statusDir
                  ELSE RemoveFile(WriteFile(statusDir, F_names, statusDir[F_tmp]),
                                  F_tmp)
       IN  /\ statusDir' = dir
           /\ pol' = [AfterHook(dir) EXCEPT
                         !.replaced = @ \/ (pol.pc = "names_write"
                                            /\ F_tmp \in DOMAIN statusDir)]
    /\ UNCHANGED <<now, dirExists, transcripts, q, dlog, watch, settings>>

\* cleanup_cmd (SessionEnd), first command: rm -f <session_id>.json.
SessionEndRemove ==
    /\ pol.pc # "done"
    /\ budget.hooks > 0
    /\ budget.writing = None
    /\ budget' = [budget EXCEPT !.hooks = @ - 1,
                                !.writing = Some([pc |-> "end", name |-> F_names,
                                                  date |-> 0])]
    /\ LET dir == IF DeleteName(HookSession) \in DOMAIN statusDir
                  THEN RemoveFile(statusDir, DeleteName(HookSession))
                  ELSE statusDir
       IN  statusDir' = dir /\ pol' = AfterHook(dir)
    /\ UNCHANGED <<now, dirExists, transcripts, q, dlog, watch, settings>>

\* cleanup_cmd, `if [ -f "$nf" ]`: when names.json is there the redirection
\* > "$nf.tmp" of the jq command creates names.json.tmp or truncates it;
\* when it is not, the hook is over.
SessionEndTmp ==
    /\ pol.pc # "done"
    /\ budget.writing # None
    /\ Get(budget.writing).pc = "end"
    /\ (F_names \in DOMAIN statusDir) =>
           (F_tmp \in DOMAIN statusDir
               \/ Cardinality(DOMAIN statusDir) < MaxSessionFiles)
    /\ budget' = [budget EXCEPT !.writing =
                     IF F_names \in DOMAIN statusDir
                     THEN Some([Get(budget.writing) EXCEPT !.pc = "end_jq"])
                     ELSE None]
    /\ LET dir == IF F_names \in DOMAIN statusDir
                  THEN WriteFile(statusDir, F_tmp, EmptyFile) ELSE statusDir
       IN  statusDir' = dir /\ pol' = AfterHook(dir)
    /\ UNCHANGED <<now, dirExists, transcripts, q, dlog, watch, settings>>

\* jq --arg s "$sid" 'del(.[$s])' "$nf" > "$nf.tmp": jq reads names.json as
\* it is now and writes the object without the session's key into
\* names.json.tmp.  When jq fails, mv is skipped and names.json.tmp stays
\* behind.
SessionEndJq ==
    /\ pol.pc # "done"
    /\ budget.writing # None
    /\ Get(budget.writing).pc = "end_jq"
    /\ \E outcome \in JqRuns(statusDir, "del") :
        /\ budget' = [budget EXCEPT !.writing =
                         IF outcome.status = "error" THEN None
                         ELSE Some([Get(budget.writing) EXCEPT !.pc = "mv"])]
        /\ LET dir == IF F_tmp \notin DOMAIN statusDir THEN statusDir
                      ELSE WriteFile(statusDir, F_tmp, outcome.written)
           IN  statusDir' = dir /\ pol' = AfterHook(dir)
    /\ UNCHANGED <<now, dirExists, transcripts, q, dlog, watch, settings>>

\* list_sessions(), the whole call, for one enumeration of the directory.
ListSessionsFirst ==
    /\ pol.pc = "idle"
    /\ \E order \in Enumerations(DOMAIN statusDir) :
        pol' = [pol EXCEPT !.pc = "listed",
                           !.before = list_sessions(dirExists, statusDir, order).sessions]
    /\ UNCHANGED <<now, dirExists, statusDir, transcripts, q, dlog, budget, watch, settings>>

\* delete_session(s.session_id) for one listed session s, up to
\* `if file_path.exists()`.
DeleteSessionExists ==
    /\ pol.pc = "listed"
    /\ \E i \in 1..Len(pol.before) :
        pol' = [pol EXCEPT
                  !.id = pol.before[i].session_id,
                  !.pc = IF DeleteName(pol.before[i].session_id) \in DOMAIN statusDir
                         THEN "del_rm" ELSE "del_names"]
    /\ UNCHANGED <<now, dirExists, statusDir, transcripts, q, dlog, budget, watch, settings>>

\* fs::remove_file(&file_path).map_err(..)?: when the file is gone by now
\* the call returns Err and remove_session_name is not reached.
DeleteSessionRemove ==
    /\ pol.pc = "del_rm"
    /\ statusDir' = RemoveFile(statusDir, DeleteName(pol.id))
    /\ pol' = IF remove_result(DeleteName(pol.id) \in DOMAIN statusDir) = "Ok"
              THEN [pol EXCEPT !.pc = "del_names"]
              ELSE [pol EXCEPT !.pc = "relist", !.result = "Err"]
    /\ UNCHANGED <<now, dirExists, transcripts, q, dlog, budget, watch, settings>>

\* remove_session_name up to names.remove(session_id): Ok when names.json is
\* not there, Err when it cannot be read; otherwise the map that
\* serde_json::from_str(..).unwrap_or_default() makes of it, without the
\* session.  delete_session drops the result and returns Ok(()).
DeleteNamesRead ==
    /\ pol.pc = "del_names"
    /\ pol' = IF F_names \notin DOMAIN statusDir \/ ReadFile(statusDir, F_names) = None
              THEN [pol EXCEPT !.pc = "relist", !.result = "Ok"]
              ELSE [pol EXCEPT !.pc = "names_trunc",
                               !.names = [k \in (DOMAIN NamesOf(statusDir[F_names]))
                                                   \ {pol.id} |->
                                             NamesOf(statusDir[F_names])[k]]]
    /\ UNCHANGED <<now, dirExists, statusDir, transcripts, q, dlog, budget, watch, settings>>

\* fs::write(&path, updated) of remove_session_name, first half:
\* File::create opens names.json and truncates it.
DeleteNamesTruncate ==
    /\ pol.pc = "names_trunc"
    /\ statusDir' = WriteFile(statusDir, F_names, EmptyFile)
    /\ pol' = [pol EXCEPT !.pc = "names_write", !.replaced = FALSE,
                          !.hook_wrote = FALSE]
    /\ UNCHANGED <<now, dirExists, transcripts, q, dlog, budget, watch, settings>>

\* fs::write, second half: write_all puts the map into the file that was
\* opened, from offset 0, and delete_session returns Ok(()).  When mv has
\* replaced names.json since, the write goes to the file that is no longer
\* in the directory; when the echo of name_cmd has written a longer text
\* since, the tail of that text stays behind the map, and the file is not
\* JSON.
DeleteNamesWrite ==
    /\ pol.pc = "names_write"
    /\ statusDir' =
          IF pol.replaced \/ F_names \notin DOMAIN statusDir THEN statusDir
          ELSE IF pol.hook_wrote /\ NamesLen(pol.names) < EchoLen
          THEN WriteFile(statusDir, F_names, Trailing(NamesObj(pol.names)))
          ELSE WriteFile(statusDir, F_names, NamesObj(pol.names))
    /\ pol' = [pol EXCEPT !.pc = "relist", !.result = "Ok",
                          !.call_wrote = @ \/ (/\ ~pol.replaced
                                               /\ budget.writing # None
                                               /\ Get(budget.writing).pc = "name")]
    /\ UNCHANGED <<now, dirExists, transcripts, q, dlog, budget, watch, settings>>

\* list_sessions() again, after delete_session has returned.
ListSessionsAgain ==
    /\ pol.pc = "relist"
    /\ \E order \in Enumerations(DOMAIN statusDir) :
        pol' = [pol EXCEPT !.pc = "done",
                           !.after = list_sessions(dirExists, statusDir, order).sessions]
    /\ UNCHANGED <<now, dirExists, statusDir, transcripts, q, dlog, budget, watch, settings>>

NextSessions ==
    \/ HookMkdir
    \/ HookDate
    \/ SessionHookOpen
    \/ SessionHookWrite
    \/ SessionNameTest
    \/ SessionNameOpen
    \/ SessionNameWrite
    \/ SessionNameTmp
    \/ SessionNameJq
    \/ SessionNamesMv
    \/ SessionEndRemove
    \/ SessionEndTmp
    \/ SessionEndJq
    \/ ListSessionsFirst
    \/ DeleteSessionExists
    \/ DeleteSessionRemove
    \/ DeleteNamesRead
    \/ DeleteNamesTruncate
    \/ DeleteNamesWrite
    \/ ListSessionsAgain

SpecSessions == InitSessions /\ [][NextSessions]_vars

\* C30 (as claimed): after delete_session(s.session_id) for a listed
\* session s, with no write by anyone else since the first list,
\* list_sessions returns no session with that session_id and returns every
\* other session listed before, unchanged.
C30_ListDeleteAgree ==
    (pol.pc = "done" /\ ~pol.external) =>
        /\ \A j \in 1..Len(pol.after) : pol.after[j].session_id # pol.id
        /\ \A i \in 1..Len(pol.before) :
              pol.before[i].session_id # pol.id =>
                  \E j \in 1..Len(pol.after) : pol.after[j] = pol.before[i]

====
